---- MODULE Spec2Model ----
(***************************************************************************)
(* Model of the terminal session runtime of rs_terminal:                   *)
(*   service/session_handler.rs  handle_terminal_session and its read task *)
(*   service/message_handler.rs  MessageHandler                            *)
(*   protocol/websocket_connection.rs  the WebSocket connection            *)
(* One runtime (one call of handle_terminal_session) is modelled together  *)
(* with its environment: the client behind the connection and the process  *)
(* behind the PTY.                                                         *)
(*                                                                         *)
(* Further specifications over their own variables:                        *)
(*   RegSpec   the registry (app_state/app_state.rs) shared by two         *)
(*             runtimes and the REST layer (handlers/rest.rs)              *)
(*   IsoSpec   two runtimes side by side, each with its PTY and channel    *)
(*   ObjSpec   one connection (protocol/) and one PTY (pty/) called from   *)
(*             outside                                                     *)
(*   SessSpec  one Session record (app_state/session.rs) under the wall    *)
(*             clock                                                       *)
(*   CfgSpec   the resolution of the shell configuration                   *)
(*             (config/config.rs, pty/mod.rs)                              *)
(*   GenSpec   two runtimes whose connections arrive without an id         *)
(*             (handlers/websocket.rs)                                     *)
(*   PortSpec  the read side of a PortablePty (pty/portable_pty_impl.rs)   *)
(*   WinSpec   the read side of a WindowsPty (pty/windows_pty_impl.rs)     *)
(*   TokSpec   the read side of a TokioProcessPty                          *)
(*             (pty/tokio_process_pty_impl.rs)                             *)
(*   WrSpec    the write side of a PortablePty                             *)
(***************************************************************************)
EXTENDS Integers, Sequences, FiniteSets, TLC

\* ------------------------------------------------------------------------
\* Bounds of the model
\* ------------------------------------------------------------------------

\* number of inputs of one run: the frames the client sends and the output
\* chunks the process produces, taken together
MaxInputs == 3

\* number of messages each client sends when two runtimes run side by side
MaxTyped == 2

\* number of close() calls made on one connection and of kill() calls made
\* on one PTY
MaxCalls == 2

\* ------------------------------------------------------------------------
\* Inputs
\* ------------------------------------------------------------------------

\* the id of the connection handed to handle_terminal_session
conn_id == "session-1"

\* the id of another session, already registered
other_id == "session-0"

\* payloads of Text frames, as sequences of code points: "a" and "e-acute"
TextPayloads == {<<97>>, <<233>>}

\* payloads of Binary frames, as sequences of bytes
BinaryPayloads == {<<255>>}

\* chunks one PTY read can return: "A", e-acute in UTF-8, and the first byte
\* of e-acute alone (a chunk that ends inside a character)
Chunks == {<<65>>, <<195, 169>>, <<195>>}

\* what Connection.receive can yield as Some(..): the five TerminalMessage
\* variants and a connection error
Frames ==
    [kind : {"Text"}, data : TextPayloads]
      \cup [kind : {"Binary"}, data : BinaryPayloads]
      \cup [kind : {"Ping", "Pong", "Close", "Error"}, data : {<< >>}]

\* ------------------------------------------------------------------------
\* UTF-8, as str::as_bytes and String::from_utf8 compute it
\* ------------------------------------------------------------------------

IsCont(b) == b >= 128 /\ b <= 191

\* the number of bytes of the well-formed character at the head of bytes,
\* 0 when the head is not a well-formed character
Utf8CharLen(bytes) ==
    LET n == Len(bytes)
        b1 == bytes[1]
    IN  IF n = 0 THEN 0
        ELSE IF b1 < 128 THEN 1
        ELSE IF b1 >= 194 /\ b1 <= 223
            THEN IF n >= 2 /\ IsCont(bytes[2]) THEN 2 ELSE 0
        ELSE IF b1 >= 224 /\ b1 <= 239
            THEN IF n >= 3 /\ IsCont(bytes[2]) /\ IsCont(bytes[3])
                    /\ (b1 = 224 => bytes[2] >= 160)
                    /\ (b1 = 237 => bytes[2] <= 159)
                 THEN 3 ELSE 0
        ELSE IF b1 >= 240 /\ b1 <= 244
            THEN IF n >= 4 /\ IsCont(bytes[2]) /\ IsCont(bytes[3])
                    /\ IsCont(bytes[4])
                    /\ (b1 = 240 => bytes[2] >= 144)
                    /\ (b1 = 244 => bytes[2] <= 143)
                 THEN 4 ELSE 0
        ELSE 0

\* the code point of the well-formed character of k bytes at the head
Utf8CharValue(bytes, k) ==
    IF k = 1 THEN bytes[1]
    ELSE IF k = 2 THEN (bytes[1] - 192) * 64 + (bytes[2] - 128)
    ELSE IF k = 3 THEN (bytes[1] - 224) * 4096 + (bytes[2] - 128) * 64
                          + (bytes[3] - 128)
    ELSE (bytes[1] - 240) * 262144 + (bytes[2] - 128) * 4096
            + (bytes[3] - 128) * 64 + (bytes[4] - 128)

RECURSIVE Utf8Valid(_)
Utf8Valid(bytes) ==
    IF bytes = << >> THEN TRUE
    ELSE LET k == Utf8CharLen(bytes)
         IN  k > 0 /\ Utf8Valid(SubSeq(bytes, k + 1, Len(bytes)))

RECURSIVE Utf8Decode(_)
Utf8Decode(bytes) ==
    IF bytes = << >> THEN << >>
    ELSE LET k == Utf8CharLen(bytes)
         IN  <<Utf8CharValue(bytes, k)>>
                \o Utf8Decode(SubSeq(bytes, k + 1, Len(bytes)))

\* the bytes of one code point
Utf8EncodeChar(cp) ==
    IF cp < 128 THEN <<cp>>
    ELSE IF cp < 2048 THEN <<192 + (cp \div 64), 128 + (cp % 64)>>
    ELSE IF cp < 65536
        THEN <<224 + (cp \div 4096), 128 + ((cp \div 64) % 64),
               128 + (cp % 64)>>
    ELSE <<240 + (cp \div 262144), 128 + ((cp \div 4096) % 64),
           128 + ((cp \div 64) % 64), 128 + (cp % 64)>>

\* str::as_bytes: the UTF-8 bytes of a string
RECURSIVE as_bytes(_)
as_bytes(text) ==
    IF text = << >> THEN << >>
    ELSE Utf8EncodeChar(Head(text)) \o as_bytes(Tail(text))

\* String::from_utf8: Ok(text) for well-formed bytes, Err otherwise
from_utf8(data) ==
    IF Utf8Valid(data)
    THEN [ok |-> TRUE, text |-> Utf8Decode(data)]
    ELSE [ok |-> FALSE, text |-> << >>]

\* the text of the diagnostic sent when the PTY cannot be created ("Error")
ErrorText == <<69, 114, 114, 111, 114>>

\* the text sent in answer to a Ping ("Pong")
PongText == <<80, 111, 110, 103>>

\* ------------------------------------------------------------------------
\* State
\* ------------------------------------------------------------------------

VARIABLES
    pc,          \* position of handle_terminal_session
    sessions,    \* state.sessions: the registry, a vector of ids
    read_task,   \* position of the spawned read task
    pty_lock,    \* holder of the mutex around the PTY: "free", "main", "reader"
    rx,          \* the unbounded channel from the read task to the pump
    cur,         \* the message the pump is dispatching while it awaits the PTY mutex
    inbox,       \* frames sent by the client and not yet received
    peer_closed, \* the client has closed the transport
    pty_out,     \* chunks produced by the process and not yet read
    pty_eof,     \* the process has closed its output
    received,    \* history: what connection.receive() has yielded
    read_log,    \* history: the chunks the read task has read
    conn_log,    \* history: the calls made on the connection
    pty_log      \* history: the write and kill calls made on the PTY

\* the registry as the REST layer and several runtimes share it
VARIABLES
    reg_lock,    \* holder of the mutex around state.sessions, or "free"
    records,     \* the Session record the registry holds for each id
    g_pc,        \* position of each runtime of handle_terminal_session
    g_id,        \* the connection id of each runtime
    rest_pc,     \* position of each request of the REST layer
    rest_snap,   \* the copy of the record a resize_session request works on
    rest_result  \* the status code a request of the REST layer has returned

\* two runtimes side by side, each with its client, its PTY and its channel
VARIABLES
    iso_pc,      \* position of each runtime: "init", "pump" or "closed"
    iso_inbox,   \* per runtime: what its client has sent and it has not received
    iso_pty_in,  \* per runtime: history of what was written to its PTY
    iso_pty_out, \* per runtime: output of its PTY not yet read
    iso_rx,      \* per runtime: its channel from the read task to the pump
    iso_client   \* per runtime: history of what was sent to its client

\* one connection and one PTY, called from outside
VARIABLES
    conn_kind,    \* the Connection variant
    conn_state,   \* "open", "closed" (by close) or "peer_closed"
    close_log,    \* history: the close() calls, with the state they met
    pty_kind,     \* the Pty backend
    child,        \* the process of the PTY: "running" or "exited"
    child_exited, \* the backend's child_exited flag
    kill_log      \* history: the kill() calls, with the state they met

\* one Session record mutated from outside, and the wall clock
VARIABLES
    session,     \* the Session record, or NoSession before Session::new
    now          \* SystemTime::now() in seconds

\* one configuration and what is resolved from it
VARIABLES
    cfg,         \* the TerminalConfig and the shell type a request asks for
    resolved,    \* the result of get_shell_config, once called
    pty_config   \* the result of create_pty_from_config, once called

\* PortablePty: its child, its background reader, its channel and its
\* internal buffer
VARIABLES
    pp_child,    \* the child process: "running" or "exited"
    pp_written,  \* number of bytes the child has written so far
    pp_pty,      \* bytes in the PTY the background reader has not read
    pp_reader,   \* background_read_loop: "reading" or "returned"
    data_tx,     \* number of Sender handles of the data channel alive
    data_rx,     \* chunks queued in the data channel
    buffer,      \* buffer[0 .. buffer_len) of the PortablePty
    buffer_pos,  \* buffer_pos of the PortablePty
    pp_out,      \* history: the bytes poll_read has returned, in order
    pp_last,     \* the result of the last poll_read
    pp_caller    \* the task that reads: "runnable" or "suspended"

\* WindowsPty: its child, its reader thread, its channel and its waker
VARIABLES
    wn_child,    \* the child process: "running" or "exited"
    wn_written,  \* number of chunks the child has written so far
    wn_pty,      \* number of chunks in the PTY the reader thread has not read
    wn_reader,   \* the reader thread: "read", "wake" or "ended"
    read_rx,     \* number of chunks queued in the read channel
    waker,       \* the waker slot holds a waker
    wn_task,     \* the task that reads: "runnable", "store" or "suspended"
    wn_last      \* the result of the last poll_read

\* TokioProcessPty: its child and the two pipes
VARIABLES
    tk_child,    \* the child process: "running" or "exited"
    tk_written,  \* number of bytes the child has written so far
    stdout,      \* bytes in the stdout pipe not yet read
    stderr,      \* bytes in the stderr pipe not yet read
    tk_out,      \* history: the bytes poll_read has returned, in order
    tk_last      \* the result of the last poll_read

\* PortablePty: a caller of poll_write and the input side of the PTY
VARIABLES
    wr_mode,     \* the writer's descriptor: "blocking" or "nonblocking"
    wr_todo,     \* number of bytes the caller has still to write
    wr_sent,     \* number of bytes the PTY has taken so far
    wr_room,     \* number of bytes the PTY can take now
    wr_caller,   \* the caller: "runnable", "suspended", "blocked" or "failed"
    wr_waker,    \* a waker of the caller is registered with the PTY
    wr_held      \* history: a write has kept the thread of the caller

\* the variables of one runtime, the registry apart
pump_vars == <<pc, read_task, pty_lock, rx, cur, inbox, peer_closed,
               pty_out, pty_eof, received, read_log, conn_log, pty_log>>

\* the variables of the registry shared by several runtimes and the REST
\* layer, the vector of ids apart
reg_vars == <<reg_lock, records, g_pc, g_id, rest_pc, rest_snap, rest_result>>

\* the variables of the two runtimes side by side
iso_vars == <<iso_pc, iso_inbox, iso_pty_in, iso_pty_out, iso_rx, iso_client>>

\* the variables of the connection and the PTY called from outside
obj_vars == <<conn_kind, conn_state, close_log, pty_kind, child, child_exited,
              kill_log>>

\* the variables of the Session record and the clock
sess_vars == <<session, now>>

\* the variables of the configuration
cfg_vars == <<cfg, resolved, pty_config>>

\* the variables of the read side of a PortablePty
port_vars == <<pp_child, pp_written, pp_pty, pp_reader, data_tx, data_rx,
               buffer, buffer_pos, pp_out, pp_last, pp_caller>>

\* the variables of the read side of a WindowsPty
win_vars == <<wn_child, wn_written, wn_pty, wn_reader, read_rx, waker,
              wn_task, wn_last>>

\* the variables of the read side of a TokioProcessPty
tok_vars == <<tk_child, tk_written, stdout, stderr, tk_out, tk_last>>

\* the variables of the write side of a PortablePty
wr_vars == <<wr_mode, wr_todo, wr_sent, wr_room, wr_caller, wr_waker,
             wr_held>>

\* the variables of the PTY backends
impl_vars == <<port_vars, win_vars, tok_vars, wr_vars>>

\* the variables a single runtime never touches
ext_vars == <<reg_vars, iso_vars, obj_vars, sess_vars, cfg_vars, impl_vars>>

\* what the steps on the registry leave alone
outside_reg ==
    <<pump_vars, iso_vars, obj_vars, sess_vars, cfg_vars, impl_vars>>

\* what the steps of the two runtimes side by side leave alone
outside_iso ==
    <<pump_vars, sessions, reg_vars, obj_vars, sess_vars, cfg_vars, impl_vars>>

\* what the calls on the connection and the PTY leave alone
outside_obj ==
    <<pump_vars, sessions, reg_vars, iso_vars, sess_vars, cfg_vars, impl_vars>>

\* what the operations on the Session record leave alone
outside_sess ==
    <<pump_vars, sessions, reg_vars, iso_vars, obj_vars, cfg_vars, impl_vars>>

\* what the resolution of the configuration leaves alone
outside_cfg ==
    <<pump_vars, sessions, reg_vars, iso_vars, obj_vars, sess_vars, impl_vars>>

\* what the steps of the PTY backends leave alone
outside_impl == <<pump_vars, sessions, reg_vars, iso_vars, obj_vars, sess_vars,
                  cfg_vars>>

\* what the read side of a PortablePty leaves alone
outside_port == <<outside_impl, win_vars, tok_vars, wr_vars>>

\* what the read side of a WindowsPty leaves alone
outside_win == <<outside_impl, port_vars, tok_vars, wr_vars>>

\* what the read side of a TokioProcessPty leaves alone
outside_tok == <<outside_impl, port_vars, win_vars, wr_vars>>

\* what the write side of a PortablePty leaves alone
outside_wr == <<outside_impl, port_vars, win_vars, tok_vars>>

vars == <<pc, sessions, read_task, pty_lock, rx, cur, inbox, peer_closed,
          pty_out, pty_eof, received, read_log, conn_log, pty_log, ext_vars>>

NoMsg == [kind |-> "None", data |-> << >>]

\* the ids a connection can be opened with
Ids == {other_id, conn_id}

\* the runtimes that share the registry
Runtimes == {"rt_a", "rt_b"}

\* the resize_session requests
Resizers == {"resize_a", "resize_b"}

\* the requests of the REST layer
RestTasks == {"create", "terminate"} \cup Resizers

\* terminal sizes, as columns x rows
Sizes == {"80x24", "100x30", "120x40"}

\* the registry holds no record for an id
NoRecord == [status |-> "Absent", size |-> "none"]

\* no request is under way, no connection has arrived, the registry holds
\* no record
RegIdle ==
    /\ reg_lock = "free"
    /\ records = [id \in Ids |-> NoRecord]
    /\ g_pc = [w \in Runtimes |-> "idle"]
    /\ g_id = [w \in Runtimes |-> conn_id]
    /\ rest_pc = [q \in RestTasks |-> "idle"]
    /\ rest_snap = [q \in Resizers |-> NoRecord]
    /\ rest_result = [q \in RestTasks |-> "none"]

\* neither of the two runtimes side by side has started
IsoIdle ==
    /\ iso_pc = [r \in Runtimes |-> "init"]
    /\ iso_inbox = [r \in Runtimes |-> << >>]
    /\ iso_pty_in = [r \in Runtimes |-> << >>]
    /\ iso_pty_out = [r \in Runtimes |-> << >>]
    /\ iso_rx = [r \in Runtimes |-> << >>]
    /\ iso_client = [r \in Runtimes |-> << >>]

\* the Connection variants (protocol/) and the Pty backends (pty/)
ConnKinds == {"WebSocket", "WebTransport"}

PtyKinds == {"TokioProcessPty", "PortablePty", "WindowsPty"}

\* an open connection of variant ck and a PTY of backend pk whose process
\* runs, neither called yet
ObjFresh(ck, pk) ==
    /\ conn_kind = ck
    /\ conn_state = "open"
    /\ close_log = << >>
    /\ pty_kind = pk
    /\ child = "running"
    /\ child_exited = FALSE
    /\ kill_log = << >>

\* the statuses of a session (session.rs lines 6-17)
SessionStatus == {"Created", "Active", "Disconnected", "Terminated"}

\* no Session record has been made
NoSession ==
    [status |-> "None", size |-> "none", created_at |-> 0, updated_at |-> 0]

\* no Session record has been made and the clock is at the start of the run
SessIdle ==
    /\ session = NoSession
    /\ now = 0

\* the names of the environment variables a layer may define
EnvKeys == {"TERM", "LANG"}

\* Option<HashMap<String, String>>: None, with "-" for a key the map lacks
NoEnv == [some |-> FALSE, map |-> [k \in EnvKeys |-> "-"]]

\* Some(map) with the value of each key, "-" for a key the map lacks
SomeEnv(term, lang) ==
    [some |-> TRUE,
     map  |-> [k \in EnvKeys |-> IF k = "TERM" THEN term ELSE lang]]

\* the names under which the configuration may hold a ShellConfig
ShellNames == {"sh", "bash", "default"}

\* shells.get(name) is None
NoEntry == [present |-> FALSE, command |-> << >>, size |-> "none", env |-> NoEnv]

\* a ShellConfig (config.rs lines 45-58), the working directory apart
ShellConfig(command, size, env) ==
    [present |-> TRUE, command |-> command, size |-> size, env |-> env]

\* get_shell_config has not been called
NoResolved ==
    [tag |-> "none", shell_type |-> "none", command |-> << >>,
     size |-> "none", env |-> NoEnv]

\* create_pty_from_config has not been called
NoPtyConfig ==
    [tag |-> "none", command |-> "none", args |-> << >>, size |-> "none",
     env |-> NoEnv.map]

\* a configuration with an entry for the default shell type and nothing else
PlainCfg ==
    [default_shell_type   |-> "sh",
     request              |-> "sh",
     default_shell_config |-> [size |-> "80x24", env |-> NoEnv],
     shells               |-> [n \in ShellNames |->
                                 IF n = "sh"
                                 THEN ShellConfig(<<"sh">>, "none", NoEnv)
                                 ELSE NoEntry]]

\* the configuration is the plain one and nothing has been resolved from it
CfgIdle ==
    /\ cfg = PlainCfg
    /\ resolved = NoResolved
    /\ pty_config = NoPtyConfig

\* the result of a poll_read: nothing polled yet
NoPoll == [tag |-> "none", n |-> 0]

\* PortablePty::new (portable_pty_impl.rs lines 31-55): the child runs, the
\* background reader has its clone of the Sender and the PortablePty keeps
\* data_tx itself: two Sender handles; the buffer is empty
PortIdle ==
    /\ pp_child = "running"
    /\ pp_written = 0
    /\ pp_pty = << >>
    /\ pp_reader = "reading"
    /\ data_tx = 2
    /\ data_rx = << >>
    /\ buffer = << >>
    /\ buffer_pos = 0
    /\ pp_out = << >>
    /\ pp_last = NoPoll
    /\ pp_caller = "runnable"

\* WindowsPty::new (windows_pty_impl.rs lines 84-155): the child runs, the
\* reader thread is in its loop, the channel and the waker slot are empty
WinIdle ==
    /\ wn_child = "running"
    /\ wn_written = 0
    /\ wn_pty = 0
    /\ wn_reader = "read"
    /\ read_rx = 0
    /\ waker = FALSE
    /\ wn_task = "runnable"
    /\ wn_last = NoPoll

\* TokioProcessPty::new (tokio_process_pty_impl.rs lines 19-81): the child
\* runs and the pipes are empty
TokIdle ==
    /\ tk_child = "running"
    /\ tk_written = 0
    /\ stdout = << >>
    /\ stderr = << >>
    /\ tk_out = << >>
    /\ tk_last = NoPoll

\* a caller with nothing to write to a PTY whose descriptor is in the mode
WrIdle(mode) ==
    /\ wr_mode = mode
    /\ wr_todo = 0
    /\ wr_sent = 0
    /\ wr_room = 0
    /\ wr_caller = "runnable"
    /\ wr_waker = FALSE
    /\ wr_held = FALSE

\* the PTY backends are as constructed
ImplIdle == PortIdle /\ WinIdle /\ TokIdle /\ WrIdle("blocking")

\* the Session record, the configuration and the PTY backends are at rest
ValIdle == SessIdle /\ CfgIdle /\ ImplIdle

\* the initial values of the variables a single runtime never touches
ExtInit ==
    /\ RegIdle
    /\ IsoIdle
    /\ ObjFresh("WebSocket", "TokioProcessPty")
    /\ ValIdle

\* the state when handle_terminal_session is called: nothing has been done
\* yet; the registry holds another session
Init ==
    /\ ExtInit
    /\ pc = "register"
    /\ sessions = <<other_id>>
    /\ read_task = "none"
    /\ pty_lock = "free"
    /\ rx = << >>
    /\ cur = NoMsg
    /\ inbox = << >>
    /\ peer_closed = FALSE
    /\ pty_out = << >>
    /\ pty_eof = FALSE
    /\ received = << >>
    /\ read_log = << >>
    /\ conn_log = << >>
    /\ pty_log = << >>

\* ------------------------------------------------------------------------
\* Helpers
\* ------------------------------------------------------------------------

\* one call on the connection: op is send_text, send_binary or close; src
\* tells what the frame carries (diag, pong, pty, close)
ConnCall(op, src, data, ok) ==
    [op |-> op, src |-> src, data |-> data, ok |-> ok]

\* one call on the PTY: op is write or kill
PtyCall(op, data, ok) == [op |-> op, data |-> data, ok |-> ok]

\* Vec::retain(|id| id != conn_id)
Retain(v, id) == SelectSeq(v, LAMBDA x : x # id)

\* the pump is running (the runtime is Active)
InPump == pc \in {"select", "await_lock"}

\* frames the client has sent so far
SentCount == Len(SelectSeq(received, LAMBDA m : m.kind # "None")) + Len(inbox)

\* chunks the process has produced so far
ProducedCount == Len(read_log) + Len(pty_out)

\* the bytes a Text or Binary message carries to the PTY
Payload(msg) == IF msg.kind = "Text" THEN as_bytes(msg.data) ELSE msg.data

\* ------------------------------------------------------------------------
\* MessageHandler (service/message_handler.rs)
\* ------------------------------------------------------------------------

\* handle_message: Ok(false), Ok(true) or Err, given whether the one I/O
\* call the handler makes (PTY write for Text and Binary, send for Ping)
\* succeeds
handle_message(msg, io_ok) ==
    IF msg.kind \in {"Text", "Binary", "Ping"}
    THEN IF io_ok THEN [err |-> FALSE, should_close |-> FALSE]
                  ELSE [err |-> TRUE, should_close |-> FALSE]
    ELSE IF msg.kind = "Pong" THEN [err |-> FALSE, should_close |-> FALSE]
    ELSE [err |-> FALSE, should_close |-> TRUE]

\* handle_pty_output: the one frame sent for a chunk of PTY output
handle_pty_output(data, ok) ==
    IF from_utf8(data).ok
    THEN ConnCall("send_text", "pty", from_utf8(data).text, ok)
    ELSE ConnCall("send_binary", "pty", data, ok)

\* ------------------------------------------------------------------------
\* handle_terminal_session: initialisation
\* ------------------------------------------------------------------------

\* lines 18-21: sessions.push(conn_id)
Register ==
    /\ pc = "register"
    /\ sessions' = Append(sessions, conn_id)
    /\ pc' = "create_pty"
    /\ UNCHANGED ext_vars
    /\ UNCHANGED <<read_task, pty_lock, rx, cur, inbox, peer_closed, pty_out,
                   pty_eof, received, read_log, conn_log, pty_log>>

\* lines 24-83: create_pty() succeeds; the mutex and the channel are made,
\* the read task is spawned and the pump is entered
CreatePtyOk ==
    /\ pc = "create_pty"
    /\ pc' = "select"
    /\ read_task' = "start"
    /\ UNCHANGED ext_vars
    /\ UNCHANGED <<sessions, pty_lock, rx, cur, inbox, peer_closed, pty_out,
                   pty_eof, received, read_log, conn_log, pty_log>>

\* CreatePtyErr with the error branch falling through into the pump
CreatePtyErr_EntersPump ==
    /\ pc = "create_pty"
    /\ pc' = "select"
    /\ UNCHANGED ext_vars
    /\ UNCHANGED <<sessions, read_task, pty_lock, rx, cur, inbox, peer_closed,
                   pty_out, pty_eof, received, read_log, conn_log, pty_log>>

\* lines 24-27: create_pty() fails
CreatePtyErr ==
    /\ pc = "create_pty"
    /\ pc' = "fail_send"
    /\ UNCHANGED ext_vars
    /\ UNCHANGED <<sessions, read_task, pty_lock, rx, cur, inbox, peer_closed,
                   pty_out, pty_eof, received, read_log, conn_log, pty_log>>

\* lines 29-31: the diagnostic is sent, its result ignored
FailSend ==
    /\ pc = "fail_send"
    /\ \E ok \in BOOLEAN :
         conn_log' = Append(conn_log, ConnCall("send_text", "diag", ErrorText, ok))
    /\ pc' = "fail_close"
    /\ UNCHANGED ext_vars
    /\ UNCHANGED <<sessions, read_task, pty_lock, rx, cur, inbox, peer_closed,
                   pty_out, pty_eof, received, read_log, pty_log>>

\* line 32: connection.close(), its result ignored
FailClose ==
    /\ pc = "fail_close"
    /\ \E ok \in BOOLEAN :
         conn_log' = Append(conn_log, ConnCall("close", "close", << >>, ok))
    /\ pc' = "fail_cleanup"
    /\ UNCHANGED ext_vars
    /\ UNCHANGED <<sessions, read_task, pty_lock, rx, cur, inbox, peer_closed,
                   pty_out, pty_eof, received, read_log, pty_log>>

\* lines 34-37: sessions.retain(|id| id != &conn_id); return
FailCleanup ==
    /\ pc = "fail_cleanup"
    /\ sessions' = Retain(sessions, conn_id)
    /\ pc' = "done"
    /\ UNCHANGED ext_vars
    /\ UNCHANGED <<read_task, pty_lock, rx, cur, inbox, peer_closed, pty_out,
                   pty_eof, received, read_log, conn_log, pty_log>>

\* ------------------------------------------------------------------------
\* handle_terminal_session: the read task (lines 53-83)
\* ------------------------------------------------------------------------

\* the end of one iteration of the read task drops the guard and the next
\* iteration locks again: the mutex goes to the pump when the pump is
\* waiting for it (tokio's Mutex is fair), otherwise the task keeps it
ReaderRelock ==
    IF pc = "await_lock"
    THEN /\ pty_lock' = "main"
         /\ read_task' = "lock"
    ELSE /\ pty_lock' = "reader"
         /\ read_task' = "read"

\* line 57, first poll of the task: pty_clone.lock().await
ReaderStart ==
    /\ read_task = "start"
    /\ IF pty_lock = "free"
       THEN /\ pty_lock' = "reader"
            /\ read_task' = "read"
       ELSE /\ pty_lock' = pty_lock
            /\ read_task' = "lock"
    /\ UNCHANGED ext_vars
    /\ UNCHANGED <<pc, sessions, rx, cur, inbox, peer_closed, pty_out, pty_eof,
                   received, read_log, conn_log, pty_log>>

\* lines 58-70: the read returns n > 0 bytes, which are sent into the
\* channel (the receiver lives until handle_terminal_session returns, after
\* the task was aborted, so tx.send cannot fail here)
ReadData ==
    /\ read_task = "read"
    /\ pty_out # << >>
    /\ read_log' = Append(read_log, Head(pty_out))
    /\ rx' = Append(rx, Head(pty_out))
    /\ pty_out' = Tail(pty_out)
    /\ ReaderRelock
    /\ UNCHANGED ext_vars
    /\ UNCHANGED <<pc, sessions, cur, inbox, peer_closed, pty_eof, received,
                   conn_log, pty_log>>

\* lines 71-74: the read returns 0 bytes; the task sleeps 10 ms, the guard
\* still held, and goes on
ReadZero ==
    /\ read_task = "read"
    /\ pty_out = << >>
    /\ pty_eof
    /\ read_task' = "sleep_zero"
    /\ UNCHANGED ext_vars
    /\ UNCHANGED <<pc, sessions, pty_lock, rx, cur, inbox, peer_closed,
                   pty_out, pty_eof, received, read_log, conn_log, pty_log>>

\* lines 76-80: the read returns an error; the task logs it, sleeps 100 ms,
\* the guard still held, and goes on
ReadErr ==
    /\ read_task = "read"
    /\ read_task' = "sleep_err"
    /\ UNCHANGED ext_vars
    /\ UNCHANGED <<pc, sessions, pty_lock, rx, cur, inbox, peer_closed,
                   pty_out, pty_eof, received, read_log, conn_log, pty_log>>

\* lines 73 and 79: the sleep is over, the iteration ends
SleepDone ==
    /\ read_task \in {"sleep_zero", "sleep_err"}
    /\ ReaderRelock
    /\ UNCHANGED ext_vars
    /\ UNCHANGED <<pc, sessions, rx, cur, inbox, peer_closed, pty_out, pty_eof,
                   received, read_log, conn_log, pty_log>>

\* ------------------------------------------------------------------------
\* handle_terminal_session: the pump (lines 86-175)
\* ------------------------------------------------------------------------

\* PumpAfter with the break of the Close arm missing
PumpAfter_CloseIgnored(msg, io_ok) ==
    IF msg.kind \in {"Text", "Binary", "Ping"}
    THEN IF io_ok THEN "select" ELSE "abort_read_task"
    ELSE IF msg.kind \in {"Pong", "Close"} THEN "select"
    ELSE "abort_read_task"

\* PumpAfter with the breaks of the None and Some(Err) arms missing
PumpAfter_DisconnectIgnored(msg, io_ok) ==
    IF msg.kind \in {"Text", "Binary", "Ping"}
    THEN IF io_ok THEN "select" ELSE "abort_read_task"
    ELSE IF msg.kind \in {"Pong", "None", "Error"} THEN "select"
    ELSE "abort_read_task"

\* PumpAfter with the breaks after a failed PTY write missing
PumpAfter_WriteErrorIgnored(msg, io_ok) ==
    IF msg.kind \in {"Text", "Binary"} THEN "select"
    ELSE IF msg.kind = "Ping"
    THEN IF io_ok THEN "select" ELSE "abort_read_task"
    ELSE IF msg.kind = "Pong" THEN "select"
    ELSE "abort_read_task"

\* PumpAfter with the break after a failed send of the Pong missing
PumpAfter_PongErrorIgnored(msg, io_ok) ==
    IF msg.kind \in {"Text", "Binary"}
    THEN IF io_ok THEN "select" ELSE "abort_read_task"
    ELSE IF msg.kind \in {"Ping", "Pong"} THEN "select"
    ELSE "abort_read_task"

\* lines 90-138: where the pump goes after a result of receive(), given
\* whether the I/O call made for it succeeded: back to select!, or break
PumpAfter(msg, io_ok) ==
    IF msg.kind \in {"Text", "Binary", "Ping"}
    THEN IF io_ok THEN "select" ELSE "abort_read_task"
    ELSE IF msg.kind = "Pong" THEN "select"
    ELSE "abort_read_task"

\* OutputFrame with the lossy conversion used for every chunk: malformed
\* bytes become U+FFFD and the chunk is always sent as text
OutputFrame_Lossy(data, ok) ==
    IF from_utf8(data).ok
    THEN ConnCall("send_text", "pty", from_utf8(data).text, ok)
    ELSE ConnCall("send_text", "pty", <<65533>>, ok)

\* lines 148-172: the frame sent for one chunk taken from the channel
OutputFrame(data, ok) ==
    IF from_utf8(data).ok
    THEN ConnCall("send_text", "pty", from_utf8(data).text, ok)
    ELSE ConnCall("send_binary", "pty", data, ok)

\* lines 96-100 and 105-109: pty_guard.write(..), the guard dropped after it
WriteToPty(msg, ok) ==
    /\ pty_log' = Append(pty_log, PtyCall("write", Payload(msg), ok))
    /\ pc' = PumpAfter(msg, ok)

\* RecvData with try_lock in place of lock().await: a payload that arrives
\* while the read task holds the mutex is skipped
RecvData_TryLock ==
    /\ pc = "select"
    /\ inbox # << >>
    /\ Head(inbox).kind \in {"Text", "Binary"}
    /\ inbox' = Tail(inbox)
    /\ received' = Append(received, Head(inbox))
    /\ IF pty_lock = "free"
       THEN \E ok \in BOOLEAN : WriteToPty(Head(inbox), ok)
       ELSE /\ pc' = "select"
            /\ pty_log' = pty_log
    /\ UNCHANGED ext_vars
    /\ UNCHANGED <<sessions, read_task, pty_lock, rx, cur, peer_closed,
                   pty_out, pty_eof, read_log, conn_log>>

\* lines 89-110: a Text or Binary message is received; the pump locks the
\* PTY and writes the payload, or waits for the mutex when the read task
\* holds it
RecvData ==
    /\ pc = "select"
    /\ inbox # << >>
    /\ Head(inbox).kind \in {"Text", "Binary"}
    /\ inbox' = Tail(inbox)
    /\ received' = Append(received, Head(inbox))
    /\ IF pty_lock = "free"
       THEN /\ \E ok \in BOOLEAN : WriteToPty(Head(inbox), ok)
            /\ cur' = cur
       ELSE /\ pc' = "await_lock"
            /\ cur' = Head(inbox)
            /\ pty_log' = pty_log
    /\ UNCHANGED ext_vars
    /\ UNCHANGED <<sessions, read_task, pty_lock, rx, peer_closed, pty_out,
                   pty_eof, read_log, conn_log>>

\* lines 96-100 and 105-109 after the wait: the mutex was handed to the
\* pump, the payload is written and the guard dropped
WriteAfterLock ==
    /\ pc = "await_lock"
    /\ pty_lock = "main"
    /\ \E ok \in BOOLEAN : WriteToPty(cur, ok)
    /\ cur' = NoMsg
    /\ IF read_task = "lock"
       THEN /\ pty_lock' = "reader"
            /\ read_task' = "read"
       ELSE /\ pty_lock' = "free"
            /\ read_task' = read_task
    /\ UNCHANGED ext_vars
    /\ UNCHANGED <<sessions, rx, inbox, peer_closed, pty_out, pty_eof,
                   received, read_log, conn_log>>

\* lines 111-118: a Ping is answered with the text "Pong"
RecvPing ==
    /\ pc = "select"
    /\ inbox # << >>
    /\ Head(inbox).kind = "Ping"
    /\ inbox' = Tail(inbox)
    /\ received' = Append(received, Head(inbox))
    /\ \E ok \in BOOLEAN :
         /\ conn_log' = Append(conn_log, ConnCall("send_text", "pong", PongText, ok))
         /\ pc' = PumpAfter(Head(inbox), ok)
    /\ UNCHANGED ext_vars
    /\ UNCHANGED <<sessions, read_task, pty_lock, rx, cur, peer_closed,
                   pty_out, pty_eof, read_log, pty_log>>

\* lines 119-132: Pong (nothing to do), Close (break) and Some(Err) (break)
RecvControl ==
    /\ pc = "select"
    /\ inbox # << >>
    /\ Head(inbox).kind \in {"Pong", "Close", "Error"}
    /\ inbox' = Tail(inbox)
    /\ received' = Append(received, Head(inbox))
    /\ pc' = PumpAfter(Head(inbox), TRUE)
    /\ UNCHANGED ext_vars
    /\ UNCHANGED <<sessions, read_task, pty_lock, rx, cur, peer_closed,
                   pty_out, pty_eof, read_log, conn_log, pty_log>>

\* lines 133-137: receive() yields None, the transport is closed
RecvNone ==
    /\ pc = "select"
    /\ inbox = << >>
    /\ peer_closed
    /\ received' = Append(received, NoMsg)
    /\ pc' = PumpAfter(NoMsg, TRUE)
    /\ UNCHANGED ext_vars
    /\ UNCHANGED <<sessions, read_task, pty_lock, rx, cur, inbox, peer_closed,
                   pty_out, pty_eof, read_log, conn_log, pty_log>>

\* ForwardOutput taking the newest chunk of the channel, not the oldest
ForwardOutput_Newest ==
    /\ pc = "select"
    /\ rx # << >>
    /\ rx' = SubSeq(rx, 1, Len(rx) - 1)
    /\ \E ok \in BOOLEAN :
         /\ conn_log' = Append(conn_log, OutputFrame(rx[Len(rx)], ok))
         /\ pc' = IF ok THEN "select" ELSE "abort_read_task"
    /\ UNCHANGED ext_vars
    /\ UNCHANGED <<sessions, read_task, pty_lock, cur, inbox, peer_closed,
                   pty_out, pty_eof, received, read_log, pty_log>>

\* lines 142-173: a chunk is taken from the channel and sent to the client
ForwardOutput ==
    /\ pc = "select"
    /\ rx # << >>
    /\ rx' = Tail(rx)
    /\ \E ok \in BOOLEAN :
         /\ conn_log' = Append(conn_log, OutputFrame(Head(rx), ok))
         /\ pc' = IF ok THEN "select" ELSE "abort_read_task"
    /\ UNCHANGED ext_vars
    /\ UNCHANGED <<sessions, read_task, pty_lock, cur, inbox, peer_closed,
                   pty_out, pty_eof, received, read_log, pty_log>>

\* ------------------------------------------------------------------------
\* handle_terminal_session: teardown (lines 177-199)
\* ------------------------------------------------------------------------

\* AbortReadTask with the handle of the task dropped and the task left to
\* run
AbortReadTask_Detached ==
    /\ pc = "abort_read_task"
    /\ pc' = "close"
    /\ UNCHANGED ext_vars
    /\ UNCHANGED <<sessions, read_task, pty_lock, rx, cur, inbox, peer_closed,
                   pty_out, pty_eof, received, read_log, conn_log, pty_log>>

\* lines 178-179: read_task.abort() and the join; the task is dropped at
\* its await point, with the guard it may hold
AbortReadTask ==
    /\ pc = "abort_read_task"
    /\ read_task' = "gone"
    /\ pty_lock' = "free"
    /\ pc' = "close"
    /\ UNCHANGED ext_vars
    /\ UNCHANGED <<sessions, rx, cur, inbox, peer_closed, pty_out, pty_eof,
                   received, read_log, conn_log, pty_log>>

\* AfterClose with an error of close ending the teardown early
AfterClose_SkipKillOnError(ok) == IF ok THEN "kill" ELSE "cleanup"

\* lines 185-187: where the teardown goes after connection.close()
AfterClose(ok) == "kill"

\* CloseConnection with a notice sent to the client before the close
CloseConnection_WithNotice ==
    /\ pc = "close"
    /\ \E ok \in BOOLEAN :
         /\ conn_log' = conn_log \o
                <<ConnCall("send_text", "diag", ErrorText, TRUE),
                  ConnCall("close", "close", << >>, ok)>>
         /\ pc' = AfterClose(ok)
    /\ UNCHANGED ext_vars
    /\ UNCHANGED <<sessions, read_task, pty_lock, rx, cur, inbox, peer_closed,
                   pty_out, pty_eof, received, read_log, pty_log>>

\* lines 185-187: connection.close(); an error is logged
CloseConnection ==
    /\ pc = "close"
    /\ \E ok \in BOOLEAN :
         /\ conn_log' = Append(conn_log, ConnCall("close", "close", << >>, ok))
         /\ pc' = AfterClose(ok)
    /\ UNCHANGED ext_vars
    /\ UNCHANGED <<sessions, read_task, pty_lock, rx, cur, inbox, peer_closed,
                   pty_out, pty_eof, received, read_log, pty_log>>

\* AfterKill with an error of kill sending the runtime back into the pump
AfterKill_ReentersPump(ok) == IF ok THEN "cleanup" ELSE "select"

\* lines 190-192: where the teardown goes after kill()
AfterKill(ok) == "cleanup"

\* lines 190-192: pty.lock().await.kill(); an error is logged
KillPty ==
    /\ pc = "kill"
    /\ pty_lock = "free"
    /\ \E ok \in BOOLEAN :
         /\ pty_log' = Append(pty_log, PtyCall("kill", << >>, ok))
         /\ pc' = AfterKill(ok)
    /\ UNCHANGED ext_vars
    /\ UNCHANGED <<sessions, read_task, pty_lock, rx, cur, inbox, peer_closed,
                   pty_out, pty_eof, received, read_log, conn_log>>

\* Cleanup without the retain: the function returns and the id stays
Cleanup_KeepEntry ==
    /\ pc = "cleanup"
    /\ pc' = "done"
    /\ UNCHANGED ext_vars
    /\ UNCHANGED <<sessions, read_task, pty_lock, rx, cur, inbox, peer_closed,
                   pty_out, pty_eof, received, read_log, conn_log, pty_log>>

\* lines 195-199: sessions.retain(|id| id != &conn_id); the function returns
Cleanup ==
    /\ pc = "cleanup"
    /\ sessions' = Retain(sessions, conn_id)
    /\ pc' = "done"
    /\ UNCHANGED ext_vars
    /\ UNCHANGED <<read_task, pty_lock, rx, cur, inbox, peer_closed, pty_out,
                   pty_eof, received, read_log, conn_log, pty_log>>

\* ------------------------------------------------------------------------
\* The environment: the client and the process behind the PTY
\* ------------------------------------------------------------------------

\* the runtime may still call receive()
MayReceive == pc \in {"register", "create_pty", "select", "await_lock"}

\* the client sends a frame (or the transport produces an error)
ClientSend ==
    /\ MayReceive
    /\ ~peer_closed
    /\ SentCount + ProducedCount < MaxInputs
    /\ \E f \in Frames : inbox' = Append(inbox, f)
    /\ UNCHANGED ext_vars
    /\ UNCHANGED <<pc, sessions, read_task, pty_lock, rx, cur, peer_closed,
                   pty_out, pty_eof, received, read_log, conn_log, pty_log>>

\* the client closes the transport
ClientDisconnect ==
    /\ MayReceive
    /\ ~peer_closed
    /\ peer_closed' = TRUE
    /\ UNCHANGED ext_vars
    /\ UNCHANGED <<pc, sessions, read_task, pty_lock, rx, cur, inbox, pty_out,
                   pty_eof, received, read_log, conn_log, pty_log>>

\* the process writes a chunk of output
PtyProduce ==
    /\ InPump
    /\ ~pty_eof
    /\ SentCount + ProducedCount < MaxInputs
    /\ \E c \in Chunks : pty_out' = Append(pty_out, c)
    /\ UNCHANGED ext_vars
    /\ UNCHANGED <<pc, sessions, read_task, pty_lock, rx, cur, inbox,
                   peer_closed, pty_eof, received, read_log, conn_log, pty_log>>

\* the process exits, closing its output
PtyExit ==
    /\ InPump
    /\ ~pty_eof
    /\ pty_eof' = TRUE
    /\ UNCHANGED ext_vars
    /\ UNCHANGED <<pc, sessions, read_task, pty_lock, rx, cur, inbox,
                   peer_closed, pty_out, received, read_log, conn_log, pty_log>>

\* ------------------------------------------------------------------------
\* Specifications
\* ------------------------------------------------------------------------

\* the steps of handle_terminal_session itself
MainStep ==
    \/ Register \/ CreatePtyOk \/ CreatePtyErr
    \/ FailSend \/ FailClose \/ FailCleanup
    \/ RecvData \/ WriteAfterLock \/ RecvPing \/ RecvControl \/ RecvNone
    \/ ForwardOutput
    \/ AbortReadTask \/ CloseConnection \/ KillPty \/ Cleanup

\* the steps of the read task that need no fault of the PTY
ReaderProgress == ReaderStart \/ ReadData \/ ReadZero \/ SleepDone

Next ==
    \/ Register \/ CreatePtyOk \/ CreatePtyErr
    \/ FailSend \/ FailClose \/ FailCleanup
    \/ ReaderStart \/ ReadData \/ ReadZero \/ ReadErr \/ SleepDone
    \/ RecvData \/ WriteAfterLock \/ RecvPing \/ RecvControl \/ RecvNone
    \/ ForwardOutput
    \/ AbortReadTask \/ CloseConnection \/ KillPty \/ Cleanup
    \/ ClientSend \/ ClientDisconnect \/ PtyProduce \/ PtyExit

Spec == Init /\ [][Next]_vars

\* the runtime's tasks are scheduled fairly by the executor; the client, the
\* process and the faults are not obliged to do anything
FairSpec == Spec /\ WF_vars(MainStep) /\ WF_vars(ReaderProgress)

TypeOK ==
    /\ pc \in {"register", "create_pty", "fail_send", "fail_close",
               "fail_cleanup", "select", "await_lock", "abort_read_task",
               "close", "kill", "cleanup", "done"}
    /\ read_task \in {"none", "start", "lock", "read", "sleep_zero", "sleep_err",
                     "gone"}
    /\ pty_lock \in {"free", "main", "reader"}

\* ------------------------------------------------------------------------
\* Observations on the histories
\* ------------------------------------------------------------------------

\* receive() has yielded a result of one of the kinds K
HasReceived(K) == \E i \in DOMAIN received : received[i].kind \in K

\* the last result of receive() is of one of the kinds K
LastReceived(K) ==
    received # << >> /\ received[Len(received)].kind \in K

\* the write calls made on the PTY, in order
Writes == SelectSeq(pty_log, LAMBDA e : e.op = "write")

\* the frames sent for PTY output, in order
PtyFrames == SelectSeq(conn_log, LAMBDA e : e.src = "pty")

NumClose == Len(SelectSeq(conn_log, LAMBDA e : e.op = "close"))

NumKill == Len(SelectSeq(pty_log, LAMBDA e : e.op = "kill"))

Registered(id) == \E i \in DOMAIN sessions : sessions[i] = id

\* PTY creation has failed: the runtime is past create_pty and no read task
\* was ever spawned
InitFailed == pc \notin {"register", "create_pty"} /\ read_task = "none"

\* ------------------------------------------------------------------------
\* Claims
\* ------------------------------------------------------------------------

\* C1: when the client's Close message is received in the pump, the
\* handler's result is should_close = true, the runtime leaves the pump in
\* that same step, nothing is received, written to the PTY or sent as PTY
\* output afterwards, and when the runtime has ended Connection.close and
\* Pty.kill have each been called exactly once.
C1_CloseEndsPump ==
    [][ /\ HasReceived({"Close"})' =>
              /\ LastReceived({"Close"})'
              /\ ~InPump'
              /\ handle_message([kind |-> "Close", data |-> << >>], TRUE).should_close
              /\ pc' = "done" => (NumClose' = 1 /\ NumKill' = 1)
        /\ HasReceived({"Close"}) =>
              /\ received' = received
              /\ Writes' = Writes
              /\ PtyFrames' = PtyFrames ]_vars

\* a run ended by a Close while another frame and PTY output were waiting
C1_Witness ==
    /\ pc = "done"
    /\ HasReceived({"Close"})
    /\ inbox # << >>
    /\ rx # << >>

\* C3: on every path out of the pump Connection.close and Pty.kill are both
\* attempted, each once: kill is attempted whatever close returned, and the
\* registry entry is removed whatever kill returned.
C3_TeardownIndependent ==
    /\ (pc = "kill" /\ read_task = "gone") => (NumClose = 1 /\ NumKill = 0)
    /\ (pc \in {"cleanup", "done"} /\ read_task = "gone") =>
            (NumClose = 1 /\ NumKill = 1)
    /\ (pc = "done" /\ read_task = "gone") => ~Registered(conn_id)

\* a teardown in which both close and kill returned an error
C3_Witness ==
    /\ pc = "done"
    /\ \E i \in DOMAIN conn_log : conn_log[i].op = "close" /\ ~conn_log[i].ok
    /\ \E i \in DOMAIN pty_log : pty_log[i].op = "kill" /\ ~pty_log[i].ok

\* C4: when PTY creation fails the runtime sends one diagnostic text,
\* attempts Connection.close, removes the registry entry it added and ends:
\* it never enters the pump, starts no read task, receives nothing and does
\* not call Pty.kill.
C4_InitFailureCleanup ==
    InitFailed =>
        /\ pc \in {"fail_send", "fail_close", "fail_cleanup", "done"}
        /\ received = << >>
        /\ pty_log = << >>
        /\ pc = "done" =>
              /\ Len(conn_log) = 2
              /\ conn_log[1].op = "send_text" /\ conn_log[1].src = "diag"
              /\ conn_log[2].op = "close"
              /\ sessions = <<other_id>>

\* a failed initialisation has ended while a frame of the client was waiting
C4_Witness ==
    /\ InitFailed
    /\ pc = "done"
    /\ inbox # << >>

\* C5: when receive() yields none or a connection error in the pump, the
\* runtime leaves the pump in that step, and nothing is received or written
\* to the PTY afterwards.
C5_DisconnectEndsPump ==
    [][ /\ HasReceived({"None", "Error"})' =>
              /\ LastReceived({"None", "Error"})'
              /\ ~InPump'
              /\ pc' = "done" => (NumClose' = 1 /\ NumKill' = 1 /\ ~Registered(conn_id)')
        /\ HasReceived({"None", "Error"}) =>
              /\ received' = received
              /\ Writes' = Writes ]_vars

\* a run ended by the transport closing, after a payload was written
C5_Witness ==
    /\ pc = "done"
    /\ LastReceived({"None"})
    /\ Writes # << >>

\* the payloads of the Text and Binary messages received, in order
RECURSIVE PayloadsOf(_)
PayloadsOf(msgs) ==
    IF msgs = << >> THEN << >>
    ELSE IF Head(msgs).kind \in {"Text", "Binary"}
         THEN <<Payload(Head(msgs))>> \o PayloadsOf(Tail(msgs))
         ELSE PayloadsOf(Tail(msgs))

\* the data of the calls of a log, in order
RECURSIVE DataOf(_)
DataOf(log) ==
    IF log = << >> THEN << >>
    ELSE <<Head(log).data>> \o DataOf(Tail(log))

\* the bytes a frame carries on the wire
FrameBytes(f) == IF f.op = "send_text" THEN as_bytes(f.data) ELSE f.data

RECURSIVE BytesOf(_)
BytesOf(frames) ==
    IF frames = << >> THEN << >>
    ELSE <<FrameBytes(Head(frames))>> \o BytesOf(Tail(frames))

\* C7: when the write of an inbound Text or Binary payload to the PTY
\* fails, the handler reports an error and the runtime leaves the pump; the
\* failed write is the last write (no retry, no later payload written) and
\* it is the write of the last message received.
C7_WriteFailureEndsPump ==
    \A i \in DOMAIN Writes :
        ~Writes[i].ok =>
            /\ i = Len(Writes)
            /\ ~InPump
            /\ LastReceived({"Text", "Binary"})
            /\ Writes[i].data = Payload(received[Len(received)])
            /\ handle_message(received[Len(received)], FALSE).err

\* a run ended by a failed write, a later frame of the client left unread
C7_Witness ==
    /\ pc = "done"
    /\ Writes # << >>
    /\ ~Writes[Len(Writes)].ok
    /\ inbox # << >>

\* C8: the payloads of the Text and Binary messages received are written to
\* the PTY in arrival order, each exactly once: the writes made are the
\* payloads received, up to the one the pump is still waiting to write.
C8_InboundOrder ==
    DataOf(Writes) =
        IF pc = "await_lock"
        THEN SubSeq(PayloadsOf(received), 1, Len(PayloadsOf(received)) - 1)
        ELSE PayloadsOf(received)

\* after one payload was written, a different one is about to be written
\* after a wait for the mutex, which the read task held while it read output
C8_Witness ==
    /\ pc = "await_lock"
    /\ pty_lock = "main"
    /\ Len(Writes) = 1
    /\ Writes[1].data # Payload(cur)
    /\ read_log # << >>

\* C9: the chunks read by the read task are sent to the client in the order
\* read, each once: the chunks read are the chunks sent followed by the
\* chunks still in the channel.
C9_OutputOrder ==
    read_log = BytesOf(PtyFrames) \o rx

\* two different chunks were sent, with a message of the client received
C9_Witness ==
    /\ Len(PtyFrames) = 2
    /\ PtyFrames[1].data # PtyFrames[2].data
    /\ received # << >>

\* the chunks of Chunks that are well-formed UTF-8
WellFormedChunks == {<<65>>, <<195, 169>>}

\* C10: each PTY output chunk taken by the pump is sent as one frame of the
\* same content: a Text frame when the chunk is well-formed UTF-8, a Binary
\* frame with the same bytes otherwise, a chunk that ends inside a character
\* included; MessageHandler.handle_pty_output builds the same frame.
C10_OutputFraming ==
    /\ Len(PtyFrames) = Len(read_log) - Len(rx)
    /\ \A i \in DOMAIN PtyFrames :
         LET f == PtyFrames[i]
             c == read_log[i]
         IN  /\ c \in WellFormedChunks =>
                   (f.op = "send_text" /\ as_bytes(f.data) = c)
             /\ c \notin WellFormedChunks =>
                   (f.op = "send_binary" /\ f.data = c)
             /\ f = handle_pty_output(c, f.ok)

\* a Text frame with a two-byte character and a Binary frame with the first
\* byte of such a character were sent
C10_Witness ==
    /\ \E i \in DOMAIN PtyFrames :
         PtyFrames[i].op = "send_text" /\ PtyFrames[i].data = <<233>>
    /\ \E i \in DOMAIN PtyFrames :
         PtyFrames[i].op = "send_binary" /\ PtyFrames[i].data = <<195>>

\* C2: when a read of the PTY returns 0 bytes, the runtime leaves the pump
\* and performs the teardown of a client Close (connection closed, PTY
\* killed, registry entry released), with no Close frame from the client.
C2_EofEndsSession ==
    (read_task = "sleep_zero") ~> (pc = "done")

\* C6: when a read of the PTY returns an error during the pump, the runtime
\* leaves the pump and performs the teardown of that session.
C6_ReadErrorEndsSession ==
    (read_task = "sleep_err") ~> (pc = "done")

\* ------------------------------------------------------------------------
\* The lifecycle of the runtime
\* ------------------------------------------------------------------------

\* the phase the runtime is in: 0 Initializing (lines 9-39, the failure
\* path included), 1 Active (the pump, lines 86-175), 2 Closing (lines
\* 177-197), 3 Closed (the function has returned)
Phase ==
    IF pc \in {"register", "create_pty", "fail_send", "fail_close",
               "fail_cleanup"} THEN 0
    ELSE IF InPump THEN 1
    ELSE IF pc = "done" THEN 3
    ELSE 2

\* C13: the runtime goes through Initializing, Active, Closing, Closed in
\* that order and through each at most once: the phase never goes back, it
\* advances one phase at a time (a failed initialisation alone goes from
\* Initializing straight to Closed), and from Closing on nothing is
\* received, nothing is written to the PTY and no PTY output is sent.
C13_LifecycleOrder ==
    [][ /\ Phase' >= Phase
        /\ Phase' # Phase =>
             \/ Phase' = Phase + 1
             \/ Phase = 0 /\ Phase' = 3 /\ InitFailed
        /\ Phase >= 2 =>
             /\ Writes' = Writes
             /\ PtyFrames' = PtyFrames
             /\ received' = received ]_vars

\* the runtime has gone through all four phases, it has written to the PTY
\* while Active, and a frame of the client is left undispatched
C13_Witness ==
    /\ pc = "done"
    /\ read_task = "gone"
    /\ Writes # << >>
    /\ inbox # << >>

\* ------------------------------------------------------------------------
\* Progress of the pump
\* ------------------------------------------------------------------------

\* C12: while the pump runs, neither event source starves the other: a
\* frame that is ready at the connection is eventually received and
\* dispatched, and a chunk of PTY output that is ready in the channel is
\* eventually sent to the client, unless the pump ends first.
C12_NoStarvation ==
    /\ \A n \in 0..MaxInputs :
         (InPump /\ inbox # << >> /\ Len(received) = n)
            ~> (~InPump \/ Len(received) > n)
    /\ \A n \in 0..MaxInputs :
         (InPump /\ rx # << >> /\ Len(PtyFrames) = n)
            ~> (~InPump \/ Len(PtyFrames) > n)

\* ------------------------------------------------------------------------
\* The registry shared by the runtimes and the REST layer
\* (app_state/app_state.rs, handlers/rest.rs, handlers/websocket.rs)
\*
\* state.sessions is one collection behind one mutex.  session_handler.rs
\* pushes and retains ids on it, app_state.rs inserts, gets and removes
\* records by id: sessions holds the ids in the order they were added, an id
\* once for each push, and records holds the record stored under an id.
\* ------------------------------------------------------------------------

\* the single runtime has not been called
PumpIdle ==
    /\ pc = "register"
    /\ read_task = "none"
    /\ pty_lock = "free"
    /\ rx = << >>
    /\ cur = NoMsg
    /\ inbox = << >>
    /\ peer_closed = FALSE
    /\ pty_out = << >>
    /\ pty_eof = FALSE
    /\ received = << >>
    /\ read_log = << >>
    /\ conn_log = << >>
    /\ pty_log = << >>

\* Session::new (session.rs): a record in status Created
new_session(size) == [status |-> "Created", size |-> size]

\* Session::resize (session.rs lines 98-105)
resize(rec, size) == [rec EXCEPT !.size = size]

\* the size a resize_session request asks for
RequestedSize(q) == IF q = "resize_a" THEN "100x30" ELSE "120x40"

\* HashMap::contains_key
contains_key(id) == Registered(id) \/ records[id] # NoRecord

\* the positions at which a runtime awaits connection or PTY I/O
IoPositions == {"create_pty", "fail_io", "pump", "teardown"}

\* websocket.rs lines 36-45: a connection arrives at /ws/:session_id and
\* handle_terminal_session is called with that id
handle_socket_with_id(w) ==
    /\ g_pc[w] = "idle"
    /\ \E id \in Ids : g_id' = [g_id EXCEPT ![w] = id]
    /\ g_pc' = [g_pc EXCEPT ![w] = "register"]
    /\ UNCHANGED <<sessions, reg_lock, records, rest_pc, rest_snap, rest_result>>
    /\ UNCHANGED outside_reg

\* session_handler.rs line 19: state.sessions.lock().await
LockToRegister(w) ==
    /\ g_pc[w] = "register"
    /\ reg_lock = "free"
    /\ reg_lock' = w
    /\ g_pc' = [g_pc EXCEPT ![w] = "push"]
    /\ UNCHANGED <<sessions, records, g_id, rest_pc, rest_snap, rest_result>>
    /\ UNCHANGED outside_reg

\* PushAndUnlock with the guard kept alive over the creation of the PTY
PushAndUnlock_KeepGuard(w) ==
    /\ g_pc[w] = "push"
    /\ sessions' = Append(sessions, g_id[w])
    /\ g_pc' = [g_pc EXCEPT ![w] = "create_pty"]
    /\ UNCHANGED <<reg_lock, records, g_id, rest_pc, rest_snap, rest_result>>
    /\ UNCHANGED outside_reg

\* session_handler.rs lines 20-21: sessions.push(conn_id); drop(sessions)
PushAndUnlock(w) ==
    /\ g_pc[w] = "push"
    /\ sessions' = Append(sessions, g_id[w])
    /\ reg_lock' = "free"
    /\ g_pc' = [g_pc EXCEPT ![w] = "create_pty"]
    /\ UNCHANGED <<records, g_id, rest_pc, rest_snap, rest_result>>
    /\ UNCHANGED outside_reg

\* session_handler.rs lines 24-83: create_pty() succeeds and the pump starts
SpawnOk(w) ==
    /\ g_pc[w] = "create_pty"
    /\ g_pc' = [g_pc EXCEPT ![w] = "pump"]
    /\ UNCHANGED <<sessions, reg_lock, records, g_id, rest_pc, rest_snap,
                   rest_result>>
    /\ UNCHANGED outside_reg

\* session_handler.rs lines 24-27: create_pty() fails
SpawnErr(w) ==
    /\ g_pc[w] = "create_pty"
    /\ g_pc' = [g_pc EXCEPT ![w] = "fail_io"]
    /\ UNCHANGED <<sessions, reg_lock, records, g_id, rest_pc, rest_snap,
                   rest_result>>
    /\ UNCHANGED outside_reg

\* session_handler.rs lines 29-32: the diagnostic is sent and the connection
\* closed
FailIo(w) ==
    /\ g_pc[w] = "fail_io"
    /\ g_pc' = [g_pc EXCEPT ![w] = "fail_cleanup"]
    /\ UNCHANGED <<sessions, reg_lock, records, g_id, rest_pc, rest_snap,
                   rest_result>>
    /\ UNCHANGED outside_reg

\* session_handler.rs lines 86-175: the pump ends, which a Close message, a
\* disconnect, a transport error or a failed write or send make it do
PumpEnds(w) ==
    /\ g_pc[w] = "pump"
    /\ g_pc' = [g_pc EXCEPT ![w] = "teardown"]
    /\ UNCHANGED <<sessions, reg_lock, records, g_id, rest_pc, rest_snap,
                   rest_result>>
    /\ UNCHANGED outside_reg

\* session_handler.rs lines 178-192: the read task is aborted, the
\* connection closed, the PTY killed
TeardownIo(w) ==
    /\ g_pc[w] = "teardown"
    /\ g_pc' = [g_pc EXCEPT ![w] = "cleanup"]
    /\ UNCHANGED <<sessions, reg_lock, records, g_id, rest_pc, rest_snap,
                   rest_result>>
    /\ UNCHANGED outside_reg

\* session_handler.rs lines 34 and 195: state.sessions.lock().await
LockToRetain(w) ==
    /\ g_pc[w] \in {"cleanup", "fail_cleanup"}
    /\ reg_lock = "free"
    /\ reg_lock' = w
    /\ g_pc' = [g_pc EXCEPT ![w] = "retain"]
    /\ UNCHANGED <<sessions, records, g_id, rest_pc, rest_snap, rest_result>>
    /\ UNCHANGED outside_reg

\* session_handler.rs lines 35-37 and 196-199: sessions.retain(|id| id !=
\* &conn_id); drop(sessions); no entry is left under the id
RetainAndUnlock(w) ==
    /\ g_pc[w] = "retain"
    /\ sessions' = Retain(sessions, g_id[w])
    /\ records' = [records EXCEPT ![g_id[w]] = NoRecord]
    /\ reg_lock' = "free"
    /\ g_pc' = [g_pc EXCEPT ![w] = "done"]
    /\ UNCHANGED <<g_id, rest_pc, rest_snap, rest_result>>
    /\ UNCHANGED outside_reg

\* rest.rs lines 22-62 and app_state.rs line 28: create_session makes a
\* record under a fresh id and add_session locks the registry
create_session ==
    /\ rest_pc["create"] = "idle"
    /\ ~contains_key(conn_id)
    /\ reg_lock = "free"
    /\ reg_lock' = "create"
    /\ rest_pc' = [rest_pc EXCEPT !["create"] = "insert"]
    /\ UNCHANGED <<sessions, records, g_pc, g_id, rest_snap, rest_result>>
    /\ UNCHANGED outside_reg

\* app_state.rs lines 29-30 and rest.rs lines 64-84: sessions.insert(id,
\* session); the guard is dropped; 201 Created
add_session ==
    /\ rest_pc["create"] = "insert"
    /\ sessions' = Append(sessions, conn_id)
    /\ records' = [records EXCEPT ![conn_id] = new_session("80x24")]
    /\ reg_lock' = "free"
    /\ rest_pc' = [rest_pc EXCEPT !["create"] = "done"]
    /\ rest_result' = [rest_result EXCEPT !["create"] = "201"]
    /\ UNCHANGED <<g_pc, g_id, rest_snap>>
    /\ UNCHANGED outside_reg

\* rest.rs line 170 and app_state.rs line 34: resize_session calls
\* get_session, which locks the registry
resize_session(q) ==
    /\ rest_pc[q] = "idle"
    /\ reg_lock = "free"
    /\ reg_lock' = q
    /\ rest_pc' = [rest_pc EXCEPT ![q] = "get"]
    /\ UNCHANGED <<sessions, records, g_pc, g_id, rest_snap, rest_result>>
    /\ UNCHANGED outside_reg

\* app_state.rs lines 35-36: sessions.get(id).cloned(); the guard is
\* dropped; rest.rs lines 171-173 and 198-210: the copy is resized, or 404
get_session(q) ==
    /\ rest_pc[q] = "get"
    /\ reg_lock' = "free"
    /\ IF records[conn_id] # NoRecord
       THEN /\ rest_snap' = [rest_snap EXCEPT
                               ![q] = resize(records[conn_id], RequestedSize(q))]
            /\ rest_pc' = [rest_pc EXCEPT ![q] = "modified"]
            /\ UNCHANGED rest_result
       ELSE /\ rest_pc' = [rest_pc EXCEPT ![q] = "done"]
            /\ rest_result' = [rest_result EXCEPT ![q] = "404"]
            /\ UNCHANGED rest_snap
    /\ UNCHANGED <<sessions, records, g_pc, g_id>>
    /\ UNCHANGED outside_reg

\* rest.rs line 176 and app_state.rs line 46: update_session locks the
\* registry
LockToUpdate(q) ==
    /\ rest_pc[q] = "modified"
    /\ reg_lock = "free"
    /\ reg_lock' = q
    /\ rest_pc' = [rest_pc EXCEPT ![q] = "update"]
    /\ UNCHANGED <<sessions, records, g_pc, g_id, rest_snap, rest_result>>
    /\ UNCHANGED outside_reg

\* update_session as an insert that does not look for the key
update_session_Upsert(q) ==
    /\ rest_pc[q] = "update"
    /\ reg_lock' = "free"
    /\ rest_pc' = [rest_pc EXCEPT ![q] = "done"]
    /\ records' = [records EXCEPT ![conn_id] = rest_snap[q]]
    /\ rest_result' = [rest_result EXCEPT ![q] = "200"]
    /\ UNCHANGED <<sessions, g_pc, g_id, rest_snap>>
    /\ UNCHANGED outside_reg

\* app_state.rs lines 47-53: the copy replaces the record when the id is
\* still a key; rest.rs lines 176-196: 200, or 500 when it is not
update_session(q) ==
    /\ rest_pc[q] = "update"
    /\ reg_lock' = "free"
    /\ rest_pc' = [rest_pc EXCEPT ![q] = "done"]
    /\ IF contains_key(conn_id)
       THEN /\ records' = [records EXCEPT ![conn_id] = rest_snap[q]]
            /\ rest_result' = [rest_result EXCEPT ![q] = "200"]
       ELSE /\ rest_result' = [rest_result EXCEPT ![q] = "500"]
            /\ UNCHANGED records
    /\ UNCHANGED <<sessions, g_pc, g_id, rest_snap>>
    /\ UNCHANGED outside_reg

\* rest.rs line 224 and app_state.rs line 40: terminate_session calls
\* remove_session, which locks the registry
terminate_session ==
    /\ rest_pc["terminate"] = "idle"
    /\ reg_lock = "free"
    /\ reg_lock' = "terminate"
    /\ rest_pc' = [rest_pc EXCEPT !["terminate"] = "remove"]
    /\ UNCHANGED <<sessions, records, g_pc, g_id, rest_snap, rest_result>>
    /\ UNCHANGED outside_reg

\* app_state.rs lines 41-42: sessions.remove(id); the guard is dropped;
\* rest.rs lines 225-247: 200 when there was an entry, 404 otherwise
remove_session ==
    /\ rest_pc["terminate"] = "remove"
    /\ sessions' = Retain(sessions, conn_id)
    /\ records' = [records EXCEPT ![conn_id] = NoRecord]
    /\ reg_lock' = "free"
    /\ rest_pc' = [rest_pc EXCEPT !["terminate"] = "done"]
    /\ rest_result' = [rest_result EXCEPT
                         !["terminate"] = IF contains_key(conn_id) THEN "200"
                                          ELSE "404"]
    /\ UNCHANGED <<g_pc, g_id, rest_snap>>
    /\ UNCHANGED outside_reg

\* the registry is empty and nothing runs
RegInit ==
    /\ RegIdle
    /\ sessions = << >>
    /\ PumpIdle
    /\ IsoIdle
    /\ ObjFresh("WebSocket", "TokioProcessPty")
    /\ ValIdle

\* the steps a runtime takes by itself, once its connection has arrived and
\* apart from the end of its pump, which its client or its PTY brings about
RuntimeProgress(w) ==
    \/ LockToRegister(w) \/ PushAndUnlock(w) \/ SpawnOk(w) \/ SpawnErr(w)
    \/ FailIo(w) \/ TeardownIo(w) \/ LockToRetain(w) \/ RetainAndUnlock(w)

\* the steps a request of the REST layer takes once it has arrived
RestProgress ==
    \/ add_session \/ remove_session
    \/ \E q \in Resizers : get_session(q) \/ LockToUpdate(q) \/ update_session(q)

RegNext ==
    \/ \E w \in Runtimes : handle_socket_with_id(w)
    \/ \E w \in Runtimes : LockToRegister(w)
    \/ \E w \in Runtimes : PushAndUnlock(w)
    \/ \E w \in Runtimes : SpawnOk(w)
    \/ \E w \in Runtimes : SpawnErr(w)
    \/ \E w \in Runtimes : FailIo(w)
    \/ \E w \in Runtimes : PumpEnds(w)
    \/ \E w \in Runtimes : TeardownIo(w)
    \/ \E w \in Runtimes : LockToRetain(w)
    \/ \E w \in Runtimes : RetainAndUnlock(w)
    \/ create_session \/ add_session
    \/ \E q \in Resizers : resize_session(q)
    \/ \E q \in Resizers : get_session(q)
    \/ \E q \in Resizers : LockToUpdate(q)
    \/ \E q \in Resizers : update_session(q)
    \/ terminate_session \/ remove_session

RegSpec == RegInit /\ [][RegNext]_vars

\* the executor schedules every runtime and every request handler fairly;
\* clients, processes and callers of the REST layer are not obliged to act
FairRegSpec ==
    /\ RegSpec
    /\ \A w \in Runtimes : WF_vars(RuntimeProgress(w))
    /\ WF_vars(RestProgress)

RegTypeOK ==
    /\ reg_lock \in {"free"} \cup Runtimes \cup RestTasks
    /\ \A w \in Runtimes :
         g_pc[w] \in {"idle", "register", "push", "create_pty", "fail_io",
                      "fail_cleanup", "pump", "teardown", "cleanup", "retain",
                      "done"}
    /\ \A q \in RestTasks :
         rest_pc[q] \in {"idle", "insert", "get", "modified", "update",
                         "remove", "done"}

\* ------------------------------------------------------------------------
\* Claims on the registry
\* ------------------------------------------------------------------------

\* number of entries the registry holds under an id
Entries(id) == Len(SelectSeq(sessions, LAMBDA x : x = id))

\* C14: once a runtime has reached Closing and done its teardown, and until
\* it removes its entry, the registry holds a record for its id whose
\* status is Terminated.
C14_TerminatedBeforeRemoval ==
    \A w \in Runtimes :
        g_pc[w] = "cleanup" => records[g_id[w]].status = "Terminated"

\* C15: when a runtime registers its connection in Initializing, an entry
\* that exists for the id is reused and one is added only when none exists:
\* the registration leaves exactly one entry for the connection's id.
C15_OneEntryPerId ==
    [][ \A w \in Runtimes :
          (g_pc[w] = "push" /\ g_pc'[w] = "create_pty")
             => Entries(g_id[w])' = 1 ]_vars

\* C16: when terminate_session removes the entry of an id while a runtime
\* for that id is Active, the runtime eventually leaves the pump.
C16_TerminateEndsPump ==
    \A w \in Runtimes :
        (rest_pc["terminate"] = "remove" /\ g_pc[w] = "pump" /\ g_id[w] = conn_id)
            ~> (g_pc[w] # "pump")

\* C17: no task holds the registry lock while it awaits connection or PTY
\* I/O: a runtime holds it only at its push and at its retain, a request of
\* the REST layer only at its one map operation.
C17_LockNotAcrossIo ==
    /\ \A w \in Runtimes :
         /\ g_pc[w] \in IoPositions => reg_lock # w
         /\ reg_lock = w => g_pc[w] \in {"push", "retain"}
    /\ \A q \in RestTasks :
         reg_lock = q => rest_pc[q] \in {"insert", "get", "update", "remove"}

\* a runtime holds the registry lock while the other runtime is in its pump
C17_Witness ==
    \E w \in Runtimes, v \in Runtimes :
        /\ reg_lock = w
        /\ g_pc[w] = "retain"
        /\ g_pc[v] = "pump"

\* C18: a resize_session request holds the registry lock for its whole
\* read-modify-write: from its read of the record to its write.
C18_AtomicReadModifyWrite ==
    \A q \in Resizers : rest_pc[q] = "modified" => reg_lock = q

\* ------------------------------------------------------------------------
\* Two runtimes side by side (session_handler.rs lines 23-175)
\*
\* Each call of handle_terminal_session creates its own PTY (line 24), its
\* own mutex around it (line 44) and its own channel (line 47); the read
\* task gets clones of these and nothing else (lines 51-53).  What a client
\* sends carries the name of its runtime, and the process behind each PTY
\* echoes what is written to it, marked with the name of that PTY.
\* ------------------------------------------------------------------------

\* the n-th message the client of runtime r sends
Typed(r, n) == [from |-> r, n |-> n]

\* the output the process behind the PTY of runtime r makes of an input
Echoed(r, x) == [from |-> x.from, n |-> x.n, pty |-> r]

\* what the process behind the PTY of runtime r has echoed so far
EchoCount(r) == Len(iso_pty_out[r]) + Len(iso_rx[r]) + Len(iso_client[r])

\* what the client of runtime r has sent so far
TypedCount(r) == Len(iso_inbox[r]) + Len(iso_pty_in[r])

\* lines 23-53: the runtime creates its PTY and its channel, spawns its read
\* task and enters its pump
IsoStart(r) ==
    /\ iso_pc[r] = "init"
    /\ iso_pc' = [iso_pc EXCEPT ![r] = "pump"]
    /\ UNCHANGED <<iso_inbox, iso_pty_in, iso_pty_out, iso_rx, iso_client>>
    /\ UNCHANGED outside_iso

\* the client of runtime r sends a message on its connection
IsoClientSend(r) ==
    /\ iso_pc[r] # "closed"
    /\ TypedCount(r) < MaxTyped
    /\ iso_inbox' = [iso_inbox EXCEPT
                       ![r] = Append(@, Typed(r, TypedCount(r) + 1))]
    /\ UNCHANGED <<iso_pc, iso_pty_in, iso_pty_out, iso_rx, iso_client>>
    /\ UNCHANGED outside_iso

\* IsoDispatch with one PTY shared by the runtimes
IsoDispatch_SharedPty(r) ==
    /\ iso_pc[r] = "pump"
    /\ iso_inbox[r] # << >>
    /\ iso_inbox' = [iso_inbox EXCEPT ![r] = Tail(@)]
    /\ \E q \in Runtimes :
         iso_pty_in' = [iso_pty_in EXCEPT ![q] = Append(@, Head(iso_inbox[r]))]
    /\ UNCHANGED <<iso_pc, iso_pty_out, iso_rx, iso_client>>
    /\ UNCHANGED outside_iso

\* lines 89-110: the pump receives a message from its connection and writes
\* it to its PTY
IsoDispatch(r) ==
    /\ iso_pc[r] = "pump"
    /\ iso_inbox[r] # << >>
    /\ iso_inbox' = [iso_inbox EXCEPT ![r] = Tail(@)]
    /\ iso_pty_in' = [iso_pty_in EXCEPT ![r] = Append(@, Head(iso_inbox[r]))]
    /\ UNCHANGED <<iso_pc, iso_pty_out, iso_rx, iso_client>>
    /\ UNCHANGED outside_iso

\* the process behind the PTY of runtime r echoes its next input
IsoEcho(r) ==
    /\ EchoCount(r) < Len(iso_pty_in[r])
    /\ iso_pty_out' = [iso_pty_out EXCEPT
                         ![r] = Append(@, Echoed(r, iso_pty_in[r][EchoCount(r) + 1]))]
    /\ UNCHANGED <<iso_pc, iso_inbox, iso_pty_in, iso_rx, iso_client>>
    /\ UNCHANGED outside_iso

\* lines 57-70: the read task of the runtime reads its PTY and sends the
\* chunk into its channel
IsoRead(r) ==
    /\ iso_pc[r] = "pump"
    /\ iso_pty_out[r] # << >>
    /\ iso_pty_out' = [iso_pty_out EXCEPT ![r] = Tail(@)]
    /\ iso_rx' = [iso_rx EXCEPT ![r] = Append(@, Head(iso_pty_out[r]))]
    /\ UNCHANGED <<iso_pc, iso_inbox, iso_pty_in, iso_client>>
    /\ UNCHANGED outside_iso

\* lines 142-172: the pump takes a chunk from its channel and sends it on
\* its connection
IsoForward(r) ==
    /\ iso_pc[r] = "pump"
    /\ iso_rx[r] # << >>
    /\ iso_rx' = [iso_rx EXCEPT ![r] = Tail(@)]
    /\ iso_client' = [iso_client EXCEPT ![r] = Append(@, Head(iso_rx[r]))]
    /\ UNCHANGED <<iso_pc, iso_inbox, iso_pty_in, iso_pty_out>>
    /\ UNCHANGED outside_iso

\* lines 86-199: the pump ends and the runtime tears down
IsoClose(r) ==
    /\ iso_pc[r] = "pump"
    /\ iso_pc' = [iso_pc EXCEPT ![r] = "closed"]
    /\ UNCHANGED <<iso_inbox, iso_pty_in, iso_pty_out, iso_rx, iso_client>>
    /\ UNCHANGED outside_iso

\* neither runtime has started; the rest of the system is at rest
IsoInit ==
    /\ IsoIdle
    /\ PumpIdle
    /\ sessions = << >>
    /\ RegIdle
    /\ ObjFresh("WebSocket", "TokioProcessPty")
    /\ ValIdle

IsoNext ==
    \/ \E r \in Runtimes : IsoStart(r)
    \/ \E r \in Runtimes : IsoClientSend(r)
    \/ \E r \in Runtimes : IsoDispatch(r)
    \/ \E r \in Runtimes : IsoEcho(r)
    \/ \E r \in Runtimes : IsoRead(r)
    \/ \E r \in Runtimes : IsoForward(r)
    \/ \E r \in Runtimes : IsoClose(r)

IsoSpec == IsoInit /\ [][IsoNext]_vars

\* the elements of a sequence
Range(q) == {q[i] : i \in DOMAIN q}

\* C11: with two runtimes side by side, whatever is written to the PTY of
\* a runtime comes from that runtime's own client, and whatever is read
\* from a PTY, passes through a runtime's channel or is sent to its client
\* was produced by that runtime's own PTY from its own client's input, in
\* every interleaving.
C11_SessionIsolation ==
    \A r \in Runtimes :
        /\ \A x \in Range(iso_pty_in[r]) : x.from = r
        /\ \A y \in Range(iso_pty_out[r]) \cup Range(iso_rx[r])
                       \cup Range(iso_client[r]) :
             y.pty = r /\ y.from = r

\* both runtimes are in their pump at the same time and each client has
\* got output of its PTY
C11_Witness ==
    \A r \in Runtimes : iso_pc[r] = "pump" /\ iso_client[r] # << >>

\* ------------------------------------------------------------------------
\* One connection and one PTY, called from outside
\* (protocol/websocket_connection.rs, protocol/webtransport_connection.rs,
\*  pty/tokio_process_pty_impl.rs, pty/portable_pty_impl.rs,
\*  pty/windows_pty_impl.rs)
\* ------------------------------------------------------------------------

\* the results close() can return, TRUE for Ok.  WebSocketConnection sends a
\* Close frame on the socket and returns the error of the send, and a
\* socket that has sent or received a Close frame, or whose transport is
\* gone, refuses the send; WebTransportConnection takes its stream and its
\* connection out of their Options, if they are there, and returns Ok.
close(ck, st) ==
    IF ck = "WebSocket"
    THEN IF st = "open" THEN {TRUE} ELSE {FALSE}
    ELSE {TRUE}

\* the results of the kill() of the process library (tokio::process::Child,
\* portable_pty::Child): a running process is killed; for a process that
\* has exited the result is the library's and the platform's
ChildKill(ch) == IF ch = "running" THEN {TRUE} ELSE BOOLEAN

\* PortablePty::kill_process and WindowsPty::kill return Ok at once when
\* the child_exited flag is set; TokioProcessPty::kill does not look at it
ReturnsEarly(pk, flag) == pk \in {"PortablePty", "WindowsPty"} /\ flag

\* the results kill() can return, TRUE for Ok
kill(pk, ch, flag) == IF ReturnsEarly(pk, flag) THEN {TRUE} ELSE ChildKill(ch)

\* a caller calls close() on the connection
CallClose ==
    /\ Len(close_log) < MaxCalls
    /\ \E ok \in close(conn_kind, conn_state) :
         /\ close_log' = Append(close_log, [met |-> conn_state, ok |-> ok])
         /\ conn_state' = IF ok /\ conn_state = "open" THEN "closed"
                          ELSE conn_state
    /\ UNCHANGED <<conn_kind, pty_kind, child, child_exited, kill_log>>
    /\ UNCHANGED outside_obj

\* the peer closes the connection
PeerCloses ==
    /\ conn_state = "open"
    /\ conn_state' = "peer_closed"
    /\ UNCHANGED <<conn_kind, close_log, pty_kind, child, child_exited, kill_log>>
    /\ UNCHANGED outside_obj

\* a caller calls kill() on the PTY; on Ok the flag is set
CallKill ==
    /\ Len(kill_log) < MaxCalls
    /\ \E ok \in kill(pty_kind, child, child_exited) :
         /\ kill_log' = Append(kill_log, [met |-> child, flag |-> child_exited,
                                          ok |-> ok])
         /\ child' = IF ok THEN "exited" ELSE child
         /\ child_exited' = (child_exited \/ ok)
    /\ UNCHANGED <<conn_kind, conn_state, close_log, pty_kind>>
    /\ UNCHANGED outside_obj

\* the process exits on its own
ProcessExits ==
    /\ child = "running"
    /\ child' = "exited"
    /\ UNCHANGED <<conn_kind, conn_state, close_log, pty_kind, child_exited,
                   kill_log>>
    /\ UNCHANGED outside_obj

\* the backend notices the exit and sets its flag: in poll_read or try_wait
\* (TokioProcessPty, WindowsPty), or when the background reader ends
\* (PortablePty)
ObserveExit ==
    /\ child = "exited"
    /\ ~child_exited
    /\ child_exited' = TRUE
    /\ UNCHANGED <<conn_kind, conn_state, close_log, pty_kind, child, kill_log>>
    /\ UNCHANGED outside_obj

\* a connection of any variant, open, and a PTY of any backend, its process
\* running; the rest of the system is at rest
ObjInit ==
    /\ \E ck \in ConnKinds, pk \in PtyKinds : ObjFresh(ck, pk)
    /\ PumpIdle
    /\ sessions = << >>
    /\ RegIdle
    /\ IsoIdle
    /\ ValIdle

ObjNext ==
    \/ CallClose \/ PeerCloses
    \/ CallKill \/ ProcessExits \/ ObserveExit

ObjSpec == ObjInit /\ [][ObjNext]_vars

\* C19: close() is idempotent for every Connection variant: every close()
\* call that meets a connection already closed, by an earlier close() or by
\* the peer, returns Ok.
C19_CloseIdempotent ==
    \A i \in DOMAIN close_log :
        close_log[i].met # "open" => close_log[i].ok

\* C20: kill() is idempotent for every Pty backend: every kill() call that
\* meets a process that has already exited, on its own or through an
\* earlier kill(), returns Ok.
C20_KillIdempotent ==
    \A i \in DOMAIN kill_log :
        kill_log[i].met = "exited" => kill_log[i].ok

\* ------------------------------------------------------------------------
\* Claims on the errors, the Ping and the read task of one runtime
\* ------------------------------------------------------------------------

\* the session has met a mid-session error: a failed PTY write, a failed
\* send of PTY output or of the Pong, or an error from receive()
MidSessionError ==
    \/ LastReceived({"Error"})
    \/ \E i \in DOMAIN pty_log : pty_log[i].op = "write" /\ ~pty_log[i].ok
    \/ \E i \in DOMAIN conn_log :
          conn_log[i].src \in {"pty", "pong"} /\ ~conn_log[i].ok

\* C27: once a session has met a mid-session error, the only operation the
\* runtime performs on the connection is close: no diagnostic and no other
\* frame is sent.
C27_NoDiagnosticMidSession ==
    [][ MidSessionError =>
          \/ conn_log' = conn_log
          \/ /\ Len(conn_log') = Len(conn_log) + 1
             /\ SubSeq(conn_log', 1, Len(conn_log)) = conn_log
             /\ conn_log'[Len(conn_log')].op = "close" ]_vars

\* a session that met a failed PTY write has ended, its connection closed
C27_Witness ==
    /\ pc = "done"
    /\ \E i \in DOMAIN pty_log : pty_log[i].op = "write" /\ ~pty_log[i].ok
    /\ NumClose = 1

\* the acknowledgements sent for Pings
Pongs == SelectSeq(conn_log, LAMBDA e : e.src = "pong")

\* C28: each Ping received is answered in the same step with exactly one
\* acknowledgement, the text "Pong", and nothing is written to the PTY; when
\* the send fails the pump is left for the teardown; and no acknowledgement
\* is sent but for a Ping.
C28_PingAcknowledged ==
    [][ /\ (received' # received /\ received'[Len(received')].kind = "Ping") =>
             /\ pty_log' = pty_log
             /\ conn_log' = Append(conn_log, conn_log'[Len(conn_log')])
             /\ conn_log'[Len(conn_log')].op = "send_text"
             /\ conn_log'[Len(conn_log')].src = "pong"
             /\ conn_log'[Len(conn_log')].data = PongText
             /\ pc' = IF conn_log'[Len(conn_log')].ok THEN "select"
                      ELSE "abort_read_task"
        /\ Pongs' # Pongs =>
             (received' # received /\ received'[Len(received')].kind = "Ping") ]_vars

\* a session ended by the failed acknowledgement of its second Ping
C28_Witness ==
    /\ pc = "done"
    /\ Len(Pongs) = 2
    /\ Pongs[1].ok
    /\ ~Pongs[2].ok

\* C29: when the teardown has completed, the read task of the session has
\* terminated: from the abort on the task is gone, and after the function
\* has returned nothing is read from the PTY and nothing is put into the
\* channel.
C29_ReadTaskEnded ==
    [][ /\ (pc \in {"close", "kill", "cleanup"} \/ (pc = "done" /\ ~InitFailed))
            => read_task = "gone"
        /\ pc = "done" => (read_log' = read_log /\ rx' = rx /\ pty_out' = pty_out)
      ]_vars

\* the session has ended while output of the PTY was still unread and a
\* chunk was left in the channel
C29_Witness ==
    /\ pc = "done"
    /\ read_task = "gone"
    /\ pty_out # << >>
    /\ rx # << >>

\* C30: the pump never waits for the PTY mutex for ever: a Text or Binary
\* message received while the read task holds the mutex is eventually
\* written to the PTY.
C30_PumpGetsMutex == (pc = "await_lock") ~> (pc # "await_lock")

\* ------------------------------------------------------------------
\* The Session record (app_state/session.rs) under the wall clock
\* ------------------------------------------------------------------

\* the last second of the wall clock in a run
MaxClock == 2

\* Session::new: status Created, both timestamps the current second
Session_new(size, t) ==
    [status |-> "Created", size |-> size, created_at |-> t, updated_at |-> t]

\* Session::resize: the size and updated_at change, nothing else
Session_resize(rec, size, t) ==
    [rec EXCEPT !.size = size, !.updated_at = t]

\* Session::set_status: the status is stored as given, updated_at changes
Session_set_status(rec, st, t) ==
    [rec EXCEPT !.status = st, !.updated_at = t]

\* a second passes on the wall clock
ClockTick ==
    /\ now < MaxClock
    /\ now' = now + 1
    /\ UNCHANGED session
    /\ UNCHANGED outside_sess

\* the wall clock is set back (SystemTime is not monotonic)
ClockSetBack ==
    /\ now > 0
    /\ \E t \in 0 .. (now - 1) : now' = t
    /\ UNCHANGED session
    /\ UNCHANGED outside_sess

\* a caller makes the Session record
SessionNew ==
    /\ session = NoSession
    /\ \E size \in Sizes : session' = Session_new(size, now)
    /\ UNCHANGED now
    /\ UNCHANGED outside_sess

\* a caller resizes the Session record
SessionResize ==
    /\ session # NoSession
    /\ \E size \in Sizes : session' = Session_resize(session, size, now)
    /\ UNCHANGED now
    /\ UNCHANGED outside_sess

\* a caller sets the status of the Session record
SessionSetStatus ==
    /\ session # NoSession
    /\ \E st \in SessionStatus : session' = Session_set_status(session, st, now)
    /\ UNCHANGED now
    /\ UNCHANGED outside_sess

\* no Session record yet; the rest of the system is at rest
SessInit ==
    /\ SessIdle
    /\ CfgIdle
    /\ ImplIdle
    /\ PumpIdle
    /\ sessions = << >>
    /\ RegIdle
    /\ IsoIdle
    /\ ObjFresh("WebSocket", "TokioProcessPty")

SessNext ==
    \/ ClockTick
    \/ ClockSetBack
    \/ SessionNew
    \/ SessionResize
    \/ SessionSetStatus

SessSpec == SessInit /\ [][SessNext]_vars

SessTypeOK ==
    /\ now \in 0 .. MaxClock
    /\ session \in [status : SessionStatus \cup {"None"},
                    size : Sizes \cup {"none"},
                    created_at : 0 .. MaxClock,
                    updated_at : 0 .. MaxClock]

\* C23: the status of a session changes only along Created -> Active ->
\* Terminated, with Disconnected entered only from Active and left only to
\* Active or Terminated; a Terminated session never becomes Active or
\* Created again.
C23_StatusTransitions ==
    [][ (session # NoSession /\ session'.status # session.status)
          => <<session.status, session'.status>> \in
                 { <<"Created", "Active">>,
                   <<"Active", "Terminated">>,
                   <<"Active", "Disconnected">>,
                   <<"Disconnected", "Active">>,
                   <<"Disconnected", "Terminated">> } ]_vars

\* C24: in every reachable state the updated_at of a session is at least
\* its created_at, whatever resize and set_status calls were made.
C24_UpdatedNotBeforeCreated ==
    session # NoSession => session.updated_at >= session.created_at

\* ------------------------------------------------------------------
\* Resolution of the shell configuration (config/config.rs, pty/mod.rs)
\* ------------------------------------------------------------------

\* the environments a shell entry may carry
ShellEnvs ==
    {NoEnv, SomeEnv("-", "-"), SomeEnv("xterm", "-"), SomeEnv("xterm", "en")}

\* the environments a default layer may carry
DefaultEnvs == {NoEnv, SomeEnv("dumb", "C"), SomeEnv("-", "C")}

\* shells["sh"]: absent, or an entry whose command list may be empty
ShEntries ==
    {NoEntry} \cup
    { ShellConfig(c, sz, e) :
        c \in {<< >>, <<"sh", "-l">>}, sz \in {"none", "100x30"}, e \in ShellEnvs }

\* shells["bash"]: absent, or a plain entry
BashEntries == {NoEntry, ShellConfig(<<"bash">>, "none", NoEnv)}

\* shells["default"]: absent, or an entry used as the fallback layer
DefaultEntries ==
    {NoEntry} \cup
    { ShellConfig(<< >>, sz, e) : sz \in {"none", "120x40"}, e \in DefaultEnvs }

\* the configurations and requests of a run
Cfgs ==
    { [default_shell_type   |-> "sh",
       request              |-> rq,
       default_shell_config |-> [size |-> "80x24", env |-> de],
       shells               |-> [n \in ShellNames |->
                                   CASE n = "sh" -> sh
                                     [] n = "bash" -> ba
                                     [] OTHER -> df]] :
        rq \in {"none", "sh", "bash"}, de \in DefaultEnvs,
        sh \in ShEntries, ba \in BashEntries, df \in DefaultEntries }

\* create_session: the shell type of the request, or the default shell type
RequestedShellType(c) ==
    IF c.request = "none" THEN c.default_shell_type ELSE c.request

\* TerminalConfig::get_shell_config, field by field as the code resolves it
get_shell_config(c, shell_type) ==
    LET shell_config == c.shells[shell_type]
        size == IF shell_config.present /\ shell_config.size # "none"
                THEN shell_config.size
                ELSE c.default_shell_config.size
        environment == IF shell_config.present /\ shell_config.env.some
                       THEN shell_config.env
                       ELSE c.default_shell_config.env
        command == IF shell_config.present THEN shell_config.command ELSE << >>
    IN  [tag |-> "ok", shell_type |-> shell_type, command |-> command,
         size |-> size, env |-> environment]

\* the outcome of create_pty_from_config that is not a PtyConfig
NoConfig(tag) == [NoPtyConfig EXCEPT !.tag = tag]

\* create_pty_from_config up to the PtyConfig it builds: "err" is a returned
\* PtyError, "panic" an index out of bounds or a failed expect
create_pty_from_config(c) ==
    LET first == c.shells[c.default_shell_type]
        bash == c.shells["bash"]
        shell_config == IF first.present THEN first ELSE bash
        default_shell_config == c.shells["default"]
        environment ==
            [k \in EnvKeys |->
               IF shell_config.env.some /\ shell_config.env.map[k] # "-"
               THEN shell_config.env.map[k]
               ELSE IF default_shell_config.env.some
                    THEN default_shell_config.env.map[k]
                    ELSE "-"]
    IN  IF ~first.present /\ ~bash.present THEN NoConfig("err")
        ELSE IF ~default_shell_config.present THEN NoConfig("err")
        ELSE IF shell_config.command = << >> THEN NoConfig("panic")
        ELSE IF shell_config.size = "none" /\ default_shell_config.size = "none"
             THEN NoConfig("panic")
        ELSE [tag     |-> "ok",
              command |-> Head(shell_config.command),
              args    |-> Tail(shell_config.command),
              size    |-> IF shell_config.size # "none"
                          THEN shell_config.size
                          ELSE default_shell_config.size,
              env     |-> environment]

\* create_session resolves the configuration of the requested shell type
ResolveShellConfig ==
    /\ resolved = NoResolved
    /\ resolved' = get_shell_config(cfg, RequestedShellType(cfg))
    /\ UNCHANGED <<cfg, pty_config>>
    /\ UNCHANGED outside_cfg

\* a runtime builds the PTY of a session from the configuration
CreatePtyFromConfig ==
    /\ pty_config = NoPtyConfig
    /\ pty_config' = create_pty_from_config(cfg)
    /\ UNCHANGED <<cfg, resolved>>
    /\ UNCHANGED outside_cfg

\* any configuration, nothing resolved; the rest of the system is at rest
CfgInit ==
    /\ cfg \in Cfgs
    /\ resolved = NoResolved
    /\ pty_config = NoPtyConfig
    /\ SessIdle
    /\ ImplIdle
    /\ PumpIdle
    /\ sessions = << >>
    /\ RegIdle
    /\ IsoIdle
    /\ ObjFresh("WebSocket", "TokioProcessPty")

CfgNext ==
    \/ ResolveShellConfig
    \/ CreatePtyFromConfig

CfgSpec == CfgInit /\ [][CfgNext]_vars

\* C21: the resolved environment is a per-key merge of the shell-specific
\* layer over the default layer: a key the shell-specific layer defines has
\* its value, any other key has the default layer's value, also when the
\* shell-specific layer has an environment of its own.
C21_EnvPerKeyMerge ==
    /\ resolved.tag = "ok" =>
         LET specific == cfg.shells[resolved.shell_type].env.map
             default == cfg.default_shell_config.env.map
         IN  \A k \in EnvKeys :
                resolved.env.map[k] =
                    IF specific[k] # "-" THEN specific[k] ELSE default[k]
    /\ pty_config.tag = "ok" =>
         LET first == cfg.shells[cfg.default_shell_type]
             specific == (IF first.present THEN first ELSE cfg.shells["bash"]).env.map
             default == cfg.shells["default"].env.map
         IN  \A k \in EnvKeys :
                pty_config.env[k] =
                    IF specific[k] # "-" THEN specific[k] ELSE default[k]

\* C22: when the requested shell type has no entry and the default shell
\* type has one, the resolved command is the command of the default shell
\* type's entry.
C22_FallsBackToDefaultShell ==
    ( /\ resolved.tag = "ok"
      /\ ~cfg.shells[resolved.shell_type].present
      /\ cfg.shells[cfg.default_shell_type].present )
        => resolved.command = cfg.shells[cfg.default_shell_type].command

\* C26: no failure to resolve the shell configuration panics: each one is
\* returned as an error value.
C26_ConfigFailureIsError ==
    pty_config.tag # "panic"

\* ------------------------------------------------------------------
\* Connections that arrive without an id (handlers/websocket.rs)
\* ------------------------------------------------------------------

\* format!("session-{}", n) for the lengths the registry has when a runtime
\* of Runtimes reads it: the other runtime has registered or has not
generated_id(n) == <<"session-0", "session-1">>[n + 1]

\* websocket.rs lines 27-34: a connection arrives at /ws with no id
handle_socket(w) ==
    /\ g_pc[w] = "idle"
    /\ g_pc' = [g_pc EXCEPT ![w] = "generate"]
    /\ UNCHANGED <<sessions, reg_lock, records, g_id, rest_pc, rest_snap,
                   rest_result>>
    /\ UNCHANGED outside_reg

\* websocket.rs line 29: state.sessions.lock().await
LockToGenerate(w) ==
    /\ g_pc[w] = "generate"
    /\ reg_lock = "free"
    /\ reg_lock' = w
    /\ g_pc' = [g_pc EXCEPT ![w] = "format"]
    /\ UNCHANGED <<sessions, records, g_id, rest_pc, rest_snap, rest_result>>
    /\ UNCHANGED outside_reg

\* websocket.rs lines 30-33: the id is made from the length of the registry,
\* the guard is dropped and handle_socket_with_id goes on with the id
GenerateAndUnlock(w) ==
    /\ g_pc[w] = "format"
    /\ g_id' = [g_id EXCEPT ![w] = generated_id(Len(sessions))]
    /\ reg_lock' = "free"
    /\ g_pc' = [g_pc EXCEPT ![w] = "register"]
    /\ UNCHANGED <<sessions, records, rest_pc, rest_snap, rest_result>>
    /\ UNCHANGED outside_reg

GenNext ==
    \/ \E w \in Runtimes : handle_socket(w)
    \/ \E w \in Runtimes : LockToGenerate(w)
    \/ \E w \in Runtimes : GenerateAndUnlock(w)
    \/ \E w \in Runtimes : LockToRegister(w)
    \/ \E w \in Runtimes : PushAndUnlock(w)
    \/ \E w \in Runtimes : SpawnOk(w)
    \/ \E w \in Runtimes : SpawnErr(w)
    \/ \E w \in Runtimes : FailIo(w)
    \/ \E w \in Runtimes : PumpEnds(w)
    \/ \E w \in Runtimes : TeardownIo(w)
    \/ \E w \in Runtimes : LockToRetain(w)
    \/ \E w \in Runtimes : RetainAndUnlock(w)

\* every connection arrives without an id; the registry starts empty
GenSpec == RegInit /\ [][GenNext]_vars

\* C25: the ids that handle_socket has generated for the sessions registered
\* at the same time are pairwise distinct.
C25_GeneratedIdsDistinct ==
    \A i, j \in DOMAIN sessions : i # j => sessions[i] # sessions[j]

\* ------------------------------------------------------------------
\* Claims on the registry entries of runtimes that start and end
\* ------------------------------------------------------------------

\* C31: while a runtime is Active its connection id stays in the registry:
\* no step other than its own teardown and the removal of a terminate
\* request takes the id out, whatever other runtimes do, also runtimes
\* opened with the same session id.
C31_OnlyOwnEntryRemoved ==
    [][ \A w \in Runtimes :
          ( /\ g_pc[w] = "pump"
            /\ g_pc'[w] = "pump"
            /\ Registered(g_id[w])
            /\ rest_pc["terminate"] # "remove" )
             => \E i \in DOMAIN sessions' : sessions'[i] = g_id[w] ]_vars

\* C32: once handle_terminal_session has returned, the id it registered is
\* absent from the registry, whichever way it ended.
C32_NoRegistryLeak ==
    pc = "done" => ~Registered(conn_id)

\* the runtime has returned after a send of PTY output failed, and its id is
\* gone while the id of the other session is still there
C32_Witness ==
    /\ pc = "done"
    /\ \E i \in DOMAIN conn_log : conn_log[i].src = "pty" /\ ~conn_log[i].ok
    /\ ~Registered(conn_id)
    /\ Registered(other_id)

\* C38: update_session for an id that is no longer in the registry returns
\* false (the request answers 500) and leaves the registry as it is: a
\* resize_session that races with terminate_session does not put the
\* removed session back.
C38_NoReinsertAfterRemove ==
    [][ \A q \in Resizers :
          ( /\ rest_pc[q] = "update"
            /\ rest_pc'[q] = "done"
            /\ ~contains_key(conn_id) )
             => /\ rest_result'[q] = "500"
                /\ records' = records
                /\ sessions' = sessions ]_vars

\* a resize_session has read the record, terminate_session has removed it,
\* and the update has answered 500 with the registry still empty of the id
C38_Witness ==
    /\ rest_result["terminate"] = "200"
    /\ \E q \in Resizers : rest_result[q] = "500"
    /\ records[conn_id] = NoRecord

\* ------------------------------------------------------------------
\* PortablePty, the read side (pty/portable_pty_impl.rs lines 15-263)
\* ------------------------------------------------------------------

\* number of bytes the child writes in a run
MaxBytes == 4

\* the length of the reader's buffer (4096 in the code), scaled down
ReaderChunk == 3

\* the length of the internal buffer (8192 in the code): twice the reader's
BufferCap == 2 * ReaderChunk

\* the largest buf.remaining() a caller comes with; smaller than a chunk
MaxRead == 2

Min(a, b) == IF a <= b THEN a ELSE b

\* s[..n] and s[n..]
Take(s, n) == SubSeq(s, 1, n)

Drop(s, n) == SubSeq(s, n + 1, Len(s))

\* everything else in the PTY backends, the base of the system included
BaseIdle ==
    /\ PumpIdle
    /\ sessions = << >>
    /\ RegIdle
    /\ IsoIdle
    /\ ObjFresh("WebSocket", "TokioProcessPty")
    /\ SessIdle
    /\ CfgIdle

\* handle_medium_data keeping the whole chunk in the internal buffer
handle_medium_data_FromStart(data, size) ==
    [put |-> Take(data, size), keep |-> data]

\* handle_medium_data (lines 233-242): what goes to the caller's buffer and
\* what is kept in the internal buffer
handle_medium_data(data, size) ==
    [put |-> Take(data, size), keep |-> Drop(data, size)]

\* handle_large_data (lines 245-262): what does not fit in the internal
\* buffer is dropped
handle_large_data(data, size) ==
    LET to_copy == Min(size, BufferCap)
        remaining_data == Drop(data, to_copy)
        buffer_copy_len == Min(Len(remaining_data), BufferCap)
    IN  [put |-> Take(data, to_copy), keep |-> Take(remaining_data, buffer_copy_len)]

\* process_received_data (lines 216-224), handle_small_data included
process_received_data(data, size) ==
    IF Len(data) <= size THEN [put |-> data, keep |-> buffer]
    ELSE IF Len(data) <= BufferCap THEN handle_medium_data(data, size)
    ELSE handle_large_data(data, size)

\* the child writes a byte to the PTY; bytes are numbered as they are written
PpChildWrite ==
    /\ pp_child = "running"
    /\ pp_written < MaxBytes
    /\ pp_written' = pp_written + 1
    /\ pp_pty' = Append(pp_pty, pp_written + 1)
    /\ UNCHANGED <<pp_child, pp_reader, data_tx, data_rx, buffer, buffer_pos,
                   pp_out, pp_last, pp_caller>>
    /\ UNCHANGED outside_port

\* the child exits
PpChildExit ==
    /\ pp_child = "running"
    /\ pp_child' = "exited"
    /\ UNCHANGED <<pp_written, pp_pty, pp_reader, data_tx, data_rx, buffer,
                   buffer_pos, pp_out, pp_last, pp_caller>>
    /\ UNCHANGED outside_port

\* background_read_loop, lines 122-134: read returns n bytes, at most the
\* length of the reader's buffer, and the chunk is sent; the send wakes the
\* task that waits on the Receiver
PpReaderRead ==
    /\ pp_reader = "reading"
    /\ pp_pty # << >>
    /\ \E n \in 1 .. Min(Len(pp_pty), ReaderChunk) :
          /\ data_rx' = Append(data_rx, Take(pp_pty, n))
          /\ pp_pty' = Drop(pp_pty, n)
    /\ pp_caller' = "runnable"
    /\ UNCHANGED <<pp_child, pp_written, pp_reader, data_tx, buffer,
                   buffer_pos, pp_out, pp_last>>
    /\ UNCHANGED outside_port

\* background_read_loop, lines 123-126 and 139: after the exit of the child
\* read returns Ok(0) or an error and the loop returns; its Sender is
\* dropped; the Receiver is woken when no Sender is left
PpReaderReturns ==
    /\ pp_reader = "reading"
    /\ pp_pty = << >>
    /\ pp_child = "exited"
    /\ pp_reader' = "returned"
    /\ data_tx' = data_tx - 1
    /\ pp_caller' = IF data_tx' = 0 THEN "runnable" ELSE pp_caller
    /\ UNCHANGED <<pp_child, pp_written, pp_pty, data_rx, buffer, buffer_pos,
                   pp_out, pp_last>>
    /\ UNCHANGED outside_port

\* poll_read (lines 164-190) with copy_from_internal_buffer (lines 195-213)
\* for a caller whose buffer has room for size bytes
PpPollRead(size) ==
    /\ pp_caller = "runnable"
    /\ IF Len(buffer) > buffer_pos
       THEN LET available == Len(buffer) - buffer_pos
                to_copy == Min(available, size)
            IN  /\ pp_out' = pp_out \o SubSeq(buffer, buffer_pos + 1,
                                              buffer_pos + to_copy)
                /\ IF buffer_pos + to_copy = Len(buffer)
                   THEN buffer' = << >> /\ buffer_pos' = 0
                   ELSE buffer' = buffer /\ buffer_pos' = buffer_pos + to_copy
                /\ pp_last' = [tag |-> "data", n |-> to_copy]
                /\ UNCHANGED <<data_rx, pp_caller>>
       ELSE IF data_rx # << >>
       THEN LET data == Head(data_rx)
                r == process_received_data(data, size)
            IN  /\ data_rx' = Tail(data_rx)
                /\ pp_out' = pp_out \o r.put
                /\ buffer' = r.keep
                /\ buffer_pos' = IF Len(data) <= size THEN buffer_pos ELSE 0
                /\ pp_last' = [tag |-> "data", n |-> Len(r.put)]
                /\ UNCHANGED pp_caller
       ELSE IF data_tx = 0
       THEN /\ pp_last' = [tag |-> "eof", n |-> 0]
            /\ UNCHANGED <<data_rx, buffer, buffer_pos, pp_out, pp_caller>>
       ELSE /\ pp_last' = [tag |-> "pending", n |-> 0]
            /\ pp_caller' = "suspended"
            /\ UNCHANGED <<data_rx, buffer, buffer_pos, pp_out>>
    /\ UNCHANGED <<pp_child, pp_written, pp_pty, pp_reader, data_tx>>
    /\ UNCHANGED outside_port

\* a PortablePty as constructed; the rest of the system is at rest
PortInit ==
    /\ ImplIdle
    /\ BaseIdle

PortNext ==
    \/ PpChildWrite
    \/ PpChildExit
    \/ PpReaderRead
    \/ PpReaderReturns
    \/ \E size \in 0 .. MaxRead : PpPollRead(size)

PortSpec == PortInit /\ [][PortNext]_vars

RECURSIVE Flatten(_)
\* the concatenation of the chunks of a queue
Flatten(q) == IF q = << >> THEN << >> ELSE Head(q) \o Flatten(Tail(q))

\* C33: once the child has exited and the reader loop has returned, a
\* poll_read is not left pending when the queued chunks are consumed: the
\* channel is closed and the task that reads is woken to see the end of the
\* stream.
C33_ReaderEndUnblocks ==
    ~( /\ pp_caller = "suspended"
       /\ pp_reader = "returned"
       /\ data_rx = << >> )

\* C36: the bytes poll_read has returned, followed by the bytes still in the
\* internal buffer, in the channel and in the PTY, are the bytes the child
\* has written, in order: nothing is dropped, duplicated or reordered,
\* whatever the sizes of the chunks and of the caller's buffers.
C36_ByteStreamPreserved ==
    pp_out \o SubSeq(buffer, buffer_pos + 1, Len(buffer))
           \o Flatten(data_rx) \o pp_pty
        = [i \in 1 .. pp_written |-> i]

\* a chunk larger than the caller's buffer went through the internal
\* buffer, of which a part has been returned and a part is still to come
C36_Witness ==
    /\ buffer_pos > 0
    /\ Len(buffer) > buffer_pos
    /\ pp_out # << >>

\* ------------------------------------------------------------------
\* WindowsPty, the read side (pty/windows_pty_impl.rs lines 84-210)
\* ------------------------------------------------------------------

\* number of chunks the child writes in a run
MaxChunks == 3

\* the child writes a chunk to the PTY
WnChildWrite ==
    /\ wn_child = "running"
    /\ wn_written < MaxChunks
    /\ wn_written' = wn_written + 1
    /\ wn_pty' = wn_pty + 1
    /\ UNCHANGED <<wn_child, wn_reader, read_rx, waker, wn_task, wn_last>>
    /\ UNCHANGED outside_win

\* the child exits
WnChildExit ==
    /\ wn_child = "running"
    /\ wn_child' = "exited"
    /\ UNCHANGED <<wn_written, wn_pty, wn_reader, read_rx, waker, wn_task,
                   wn_last>>
    /\ UNCHANGED outside_win

\* the reader thread, lines 97-107: read returns a chunk and it is sent
WnReaderSend ==
    /\ wn_reader = "read"
    /\ wn_pty > 0
    /\ wn_pty' = wn_pty - 1
    /\ read_rx' = read_rx + 1
    /\ wn_reader' = "wake"
    /\ UNCHANGED <<wn_child, wn_written, waker, wn_task, wn_last>>
    /\ UNCHANGED outside_win

\* the reader thread, lines 109-111: the waker is taken from the slot, if
\* there is one, and the task is woken
WnReaderWake ==
    /\ wn_reader = "wake"
    /\ wn_reader' = "read"
    /\ waker' = FALSE
    /\ wn_task' = IF waker /\ wn_task = "suspended" THEN "runnable" ELSE wn_task
    /\ UNCHANGED <<wn_child, wn_written, wn_pty, read_rx, wn_last>>
    /\ UNCHANGED outside_win

\* the reader thread, lines 98-101 and 117-120: read returns Ok(0) or an
\* error after the exit of the child; the loop is left and read_tx dropped
WnReaderEnds ==
    /\ wn_reader = "read"
    /\ wn_pty = 0
    /\ wn_child = "exited"
    /\ wn_reader' = "ended"
    /\ UNCHANGED <<wn_child, wn_written, wn_pty, read_rx, waker, wn_task,
                   wn_last>>
    /\ UNCHANGED outside_win

\* poll_read, lines 184-208, with an empty read_buffer: try_recv yields a
\* chunk, which is returned, or Disconnected, or Empty
WnTryRecv ==
    /\ wn_task = "runnable"
    /\ IF read_rx > 0
       THEN /\ read_rx' = read_rx - 1
            /\ wn_last' = [tag |-> "data", n |-> 1]
            /\ UNCHANGED wn_task
       ELSE IF wn_reader = "ended"
       THEN /\ wn_last' = [tag |-> "eof", n |-> 0]
            /\ UNCHANGED <<read_rx, wn_task>>
       ELSE /\ wn_task' = "store"
            /\ UNCHANGED <<read_rx, wn_last>>
    /\ UNCHANGED <<wn_child, wn_written, wn_pty, wn_reader, waker>>
    /\ UNCHANGED outside_win

\* poll_read, lines 198-202: after Empty the waker is stored and Pending is
\* returned
WnStoreWaker ==
    /\ wn_task = "store"
    /\ waker' = TRUE
    /\ wn_task' = "suspended"
    /\ wn_last' = [tag |-> "pending", n |-> 0]
    /\ UNCHANGED <<wn_child, wn_written, wn_pty, wn_reader, read_rx>>
    /\ UNCHANGED outside_win

\* a WindowsPty as constructed; the rest of the system is at rest
WinInit ==
    /\ ImplIdle
    /\ BaseIdle

WinNext ==
    \/ WnChildWrite
    \/ WnChildExit
    \/ WnReaderSend
    \/ WnReaderWake
    \/ WnReaderEnds
    \/ WnTryRecv
    \/ WnStoreWaker

WinSpec == WinInit /\ [][WinNext]_vars

\* C34: a task that got Pending from poll_read is not left suspended while a
\* chunk is queued or the reader thread has ended: in such a state the
\* reader thread is on its way to take the stored waker and wake the task.
C34_NoLostWakeup ==
    ( /\ wn_task = "suspended"
      /\ read_rx > 0 \/ wn_reader = "ended" )
        => /\ wn_reader = "wake"
           /\ waker

\* ------------------------------------------------------------------
\* TokioProcessPty, the read side (pty/tokio_process_pty_impl.rs 85-136)
\* ------------------------------------------------------------------

\* number of bytes the child writes to its two pipes in a run
MaxPiped == 3

\* the pipes of the child
Pipes == {"stdout", "stderr"}

\* the child writes a byte to one of its pipes; bytes are numbered as they
\* are written
TkChildWrite ==
    /\ tk_child = "running"
    /\ tk_written < MaxPiped
    /\ tk_written' = tk_written + 1
    /\ \E p \in Pipes :
          IF p = "stdout"
          THEN stdout' = Append(stdout, tk_written + 1) /\ UNCHANGED stderr
          ELSE stderr' = Append(stderr, tk_written + 1) /\ UNCHANGED stdout
    /\ UNCHANGED <<tk_child, tk_out, tk_last>>
    /\ UNCHANGED outside_tok

\* the child exits; what it wrote stays in the pipes
TkChildExit ==
    /\ tk_child = "running"
    /\ tk_child' = "exited"
    /\ UNCHANGED <<tk_written, stdout, stderr, tk_out, tk_last>>
    /\ UNCHANGED outside_tok

\* poll_read (lines 86-135) for a caller whose buffer has room for size
\* bytes: try_wait first, then stdout, then stderr; the caller reads until
\* the end of the stream
TkPollRead(size) ==
    /\ tk_last.tag # "eof"
    /\ IF tk_child = "exited"
       THEN /\ tk_last' = [tag |-> "eof", n |-> 0]
            /\ UNCHANGED <<stdout, stderr, tk_out>>
       ELSE IF stdout # << >>
       THEN LET n == Min(Len(stdout), size)
            IN  /\ tk_out' = tk_out \o Take(stdout, n)
                /\ stdout' = Drop(stdout, n)
                /\ tk_last' = [tag |-> "data", n |-> n]
                /\ UNCHANGED stderr
       ELSE IF stderr # << >>
       THEN LET n == Min(Len(stderr), size)
            IN  /\ tk_out' = tk_out \o Take(stderr, n)
                /\ stderr' = Drop(stderr, n)
                /\ tk_last' = [tag |-> "data", n |-> n]
                /\ UNCHANGED stdout
       ELSE /\ tk_last' = [tag |-> "pending", n |-> 0]
            /\ UNCHANGED <<stdout, stderr, tk_out>>
    /\ UNCHANGED <<tk_child, tk_written>>
    /\ UNCHANGED outside_tok

\* a TokioProcessPty as constructed; the rest of the system is at rest
TokInit ==
    /\ ImplIdle
    /\ BaseIdle

TokNext ==
    \/ TkChildWrite
    \/ TkChildExit
    \/ \E size \in 1 .. MaxRead : TkPollRead(size)

TokSpec == TokInit /\ [][TokNext]_vars

\* C35: when poll_read reports the end of the stream, every byte the child
\* wrote to stdout and stderr has been returned by earlier reads: nothing is
\* left in the pipes.
C35_EofAfterAllOutput ==
    tk_last.tag = "eof" => { tk_out[i] : i \in DOMAIN tk_out } = 1 .. tk_written

\* ------------------------------------------------------------------
\* PortablePty, the write side (pty/portable_pty_impl.rs lines 265-325)
\* ------------------------------------------------------------------

\* number of bytes the caller writes in a run
MaxSent == 4

\* the largest number of bytes the caller hands to one write
MaxPayload == 2

\* number of bytes the input side of the PTY holds when nothing reads it
MaxRoom == 2

\* the modes the descriptor of the writer can be in
WriterModes == {"blocking", "nonblocking"}

\* the caller starts to write n bytes
WrCallerWants ==
    /\ wr_caller = "runnable"
    /\ wr_todo = 0
    /\ \E n \in 1 .. MaxPayload :
          /\ wr_sent + n <= MaxSent
          /\ wr_todo' = n
    /\ UNCHANGED <<wr_mode, wr_sent, wr_room, wr_caller, wr_waker, wr_held>>
    /\ UNCHANGED outside_wr

\* poll_write (lines 266-277) and write_to_pty (lines 307-325): the write
\* takes what the PTY has room for; with no room it returns WouldBlock on a
\* nonblocking descriptor, and Pending is returned with no waker registered
\* (_cx is not used), or it does not return on a blocking one
WrPollWrite ==
    /\ wr_caller = "runnable"
    /\ wr_todo > 0
    /\ IF wr_room > 0
       THEN LET n == Min(wr_todo, wr_room)
            IN  /\ wr_todo' = wr_todo - n
                /\ wr_sent' = wr_sent + n
                /\ wr_room' = wr_room - n
                /\ UNCHANGED <<wr_caller, wr_held>>
       ELSE /\ wr_caller' = IF wr_mode = "nonblocking" THEN "suspended"
                            ELSE "blocked"
            /\ wr_held' = (wr_held \/ wr_mode = "blocking")
            /\ UNCHANGED <<wr_todo, wr_sent, wr_room>>
    /\ UNCHANGED <<wr_mode, wr_waker>>
    /\ UNCHANGED outside_wr

\* write_to_pty, lines 320-323: the write fails and the error is returned
WrWriteError ==
    /\ wr_caller = "runnable"
    /\ wr_todo > 0
    /\ wr_caller' = "failed"
    /\ UNCHANGED <<wr_mode, wr_todo, wr_sent, wr_room, wr_waker, wr_held>>
    /\ UNCHANGED outside_wr

\* a write on a blocking descriptor returns once the PTY has room
WrUnblock ==
    /\ wr_caller = "blocked"
    /\ wr_room > 0
    /\ LET n == Min(wr_todo, wr_room)
       IN  /\ wr_todo' = wr_todo - n
           /\ wr_sent' = wr_sent + n
           /\ wr_room' = wr_room - n
    /\ wr_caller' = "runnable"
    /\ UNCHANGED <<wr_mode, wr_waker, wr_held>>
    /\ UNCHANGED outside_wr

\* the child reads its input: the PTY has room for one more byte; a
\* registered waker is taken and its task woken
WrPtyDrains ==
    /\ wr_room < MaxRoom
    /\ wr_room' = wr_room + 1
    /\ wr_waker' = FALSE
    /\ wr_caller' = IF wr_waker /\ wr_caller = "suspended" THEN "runnable"
                    ELSE wr_caller
    /\ UNCHANGED <<wr_mode, wr_todo, wr_sent, wr_held>>
    /\ UNCHANGED outside_wr

\* a PortablePty as constructed, its writer in either mode; the rest of the
\* system is at rest
WrInit ==
    /\ \E mode \in WriterModes : WrIdle(mode)
    /\ PortIdle
    /\ WinIdle
    /\ TokIdle
    /\ BaseIdle

WrNext ==
    \/ WrCallerWants
    \/ WrPollWrite
    \/ WrWriteError
    \/ WrUnblock
    \/ WrPtyDrains

WrSpec == WrInit /\ [][WrNext]_vars

\* C37: a write on the PTY never keeps its caller inside the call, and a
\* caller that was told not-ready has a waker registered, so that it is
\* woken to retry when the PTY becomes writable.
C37_WriteBackPressure ==
    /\ wr_caller # "blocked"
    /\ wr_caller = "suspended" => wr_waker

====
